---- MODULE Spec2Model ----
(***************************************************************************)
(* Model of the technical-analysis core of quantlab                        *)
(* (src/example/profitable_smallcap_ai/technical_analysis.py):             *)
(* TechnicalAnalyzer.get_price_data, calculate_indicators, analyze_stock,  *)
(* _determine_trend, _generate_signals and _recommend_strategies.          *)
(*                                                                         *)
(* Numbers.  Prices and volumes are integers.  A float64 value of the      *)
(* program is modelled as a record [k, n, d]: k = "num" is the exact       *)
(* rational n/d (d > 0), k = "nan" is NaN, k = "inf" is +infinity (n = 1)  *)
(* or -infinity (n = -1).  Comparisons and arithmetic follow IEEE-754 on   *)
(* the special values (every comparison with NaN is false, x/0 is an       *)
(* infinity, 0/0 is NaN); rounding of finite values is not modelled.  The  *)
(* exponential averages, whose exact denominators grow without bound, are  *)
(* kept in fixed point (FixedPoint units per price unit).                  *)
(***************************************************************************)
EXTENDS Integers, Sequences, FiniteSets, TLC

(***************************************************************************)
(* Window lengths and thresholds of the program.                           *)
(***************************************************************************)
SMA20Window == 20
SMA50Window == 50
SMA200Window == 200
EMA12Span == 12
EMA26Span == 26
MACDSignalSpan == 9
RSIWindow == 14
BBWindow == 20
ATRWindow == 14
VolumeWindow == 20
SRWindow == 20

(***************************************************************************)
(* Bounds of the model.                                                    *)
(***************************************************************************)
MaxLen == 250
BasePrice == 100
FixedPoint == 10000

(***************************************************************************)
(* float64 values.                                                         *)
(***************************************************************************)
NaN == [k |-> "nan", n |-> 0, d |-> 1]
PosInf == [k |-> "inf", n |-> 1, d |-> 1]
NegInf == [k |-> "inf", n |-> -1, d |-> 1]

Abs(x) == IF x < 0 THEN -x ELSE x

RECURSIVE GCD(_, _)
GCD(a, b) == IF b = 0 THEN a ELSE GCD(b, a % b)

\* the rational n/d in lowest terms with a positive denominator (d # 0)
Num(n, d) ==
    LET g == GCD(Abs(n), Abs(d))
        s == IF d < 0 THEN -1 ELSE 1
    IN  [k |-> "num", n |-> s * (n \div g), d |-> s * (d \div g)]

F(x) == Num(x, 1)

IsNaN(a) == a.k = "nan"
IsNum(a) == a.k = "num"
IsInf(a) == a.k = "inf"
Sign(a) == IF a.n > 0 THEN 1 ELSE IF a.n < 0 THEN -1 ELSE 0

\* a < b, false when either side is NaN
FLt(a, b) ==
    IF IsNaN(a) \/ IsNaN(b) THEN FALSE
    ELSE IF IsInf(a) THEN a.n < 0 /\ ~(IsInf(b) /\ b.n < 0)
    ELSE IF IsInf(b) THEN b.n > 0
    ELSE a.n * b.d < b.n * a.d

FGt(a, b) == FLt(b, a)

FEq(a, b) == ~IsNaN(a) /\ ~IsNaN(b) /\ a = b

FLe(a, b) == FLt(a, b) \/ FEq(a, b)

FGe(a, b) == FLe(b, a)

FNeg(a) == IF IsNaN(a) THEN NaN ELSE IF IsInf(a) THEN [a EXCEPT !.n = -a.n] ELSE Num(-a.n, a.d)

FAdd(a, b) ==
    IF IsNaN(a) \/ IsNaN(b) THEN NaN
    ELSE IF IsInf(a) /\ IsInf(b) THEN (IF a.n = b.n THEN a ELSE NaN)
    ELSE IF IsInf(a) THEN a
    ELSE IF IsInf(b) THEN b
    ELSE Num(a.n * b.d + b.n * a.d, a.d * b.d)

FSub(a, b) == FAdd(a, FNeg(b))

FMul(a, b) ==
    IF IsNaN(a) \/ IsNaN(b) THEN NaN
    ELSE IF IsInf(a) \/ IsInf(b)
         THEN (IF Sign(a) * Sign(b) = 0 THEN NaN
               ELSE IF Sign(a) * Sign(b) > 0 THEN PosInf ELSE NegInf)
    ELSE Num(a.n * b.n, a.d * b.d)

\* a / b of two float64 arrays' elements: x/0 is an infinity, 0/0 is NaN
FDiv(a, b) ==
    IF IsNaN(a) \/ IsNaN(b) THEN NaN
    ELSE IF IsInf(a) THEN (IF IsInf(b) THEN NaN
                           ELSE IF Sign(a) * (IF b.n < 0 THEN -1 ELSE 1) > 0 THEN PosInf ELSE NegInf)
    ELSE IF IsInf(b) THEN F(0)
    ELSE IF b.n = 0 THEN (IF a.n = 0 THEN NaN ELSE IF a.n > 0 THEN PosInf ELSE NegInf)
    ELSE Num(a.n * b.d, a.d * b.n)

FAbs(a) == IF IsNaN(a) THEN NaN ELSE IF IsInf(a) THEN PosInf ELSE Num(Abs(a.n), a.d)

\* bool(x) of a float or None: None and 0.0 are falsy, NaN is truthy
None == [k |-> "none", n |-> 0, d |-> 1]
Truthy(a) == a.k # "none" /\ ~(IsNum(a) /\ a.n = 0)


(***************************************************************************)
(* pandas building blocks on columns (sequences indexed from 1).           *)
(***************************************************************************)
\* a column given row by row, as the sequence of its values
Series(f) == f \o <<>>

\* running totals of rows lo..hi of an integer column, continuing from the
\* total `base` of the rows before lo (the rows are split in halves)
RECURSIVE CumSumFrom(_, _, _, _)
CumSumFrom(xs, lo, hi, base) ==
    IF lo > hi THEN <<>>
    ELSE IF lo = hi THEN <<base + xs[lo]>>
    ELSE LET mid == (lo + hi) \div 2
             left == CumSumFrom(xs, lo, mid, base)
         IN  left \o CumSumFrom(xs, mid + 1, hi, left[Len(left)])

CumSum(xs) == CumSumFrom(xs, 1, Len(xs), 0)

\* Series.rolling(window=w).sum() of an integer column without NaN, as
\* integers; only rows i >= w have a value
WindowSum(c, i, w) == c[i] - (IF i = w THEN 0 ELSE c[i - w])

\* rolling(window=w, min_periods=1).mean(): the mean of the rows there are
RollingMeanPartial(xs, w) ==
    LET c == CumSum(xs)
    IN  Series([i \in 1..Len(xs) |->
            IF i < w THEN Num(c[i], i) ELSE Num(WindowSum(c, i, w), w)])

\* Series.rolling(window=w).mean(): NaN on the first w-1 rows
\* (min_periods defaults to the window)
RollingMean(xs, w) ==
    LET c == CumSum(xs)
    IN  Series([i \in 1..Len(xs) |-> IF i < w THEN NaN ELSE Num(WindowSum(c, i, w), w)])

RECURSIVE MaxOver(_, _, _)
MaxOver(xs, lo, hi) ==
    IF lo = hi THEN xs[lo]
    ELSE LET m == MaxOver(xs, lo + 1, hi) IN IF xs[lo] > m THEN xs[lo] ELSE m

RECURSIVE MinOver(_, _, _)
MinOver(xs, lo, hi) ==
    IF lo = hi THEN xs[lo]
    ELSE LET m == MinOver(xs, lo + 1, hi) IN IF xs[lo] < m THEN xs[lo] ELSE m

\* Series.rolling(window=w).max() / .min()
RollingMax(xs, w) ==
    Series([i \in 1..Len(xs) |-> IF i < w THEN NaN ELSE F(MaxOver(xs, i - w + 1, i))])

RollingMin(xs, w) ==
    Series([i \in 1..Len(xs) |-> IF i < w THEN NaN ELSE F(MinOver(xs, i - w + 1, i))])

\* floor of the square root of x >= 0
RECURSIVE ISqrtIn(_, _, _)
ISqrtIn(x, lo, hi) ==
    IF lo >= hi THEN lo
    ELSE LET mid == (lo + hi + 1) \div 2
         IN  IF mid * mid <= x THEN ISqrtIn(x, mid, hi) ELSE ISqrtIn(x, lo, mid - 1)

ISqrt(x) == ISqrtIn(x, 0, IF x < 46340 THEN x ELSE 46340)

\* Series.rolling(window=w).std(): the sample standard deviation (ddof = 1)
\* of the window, sqrt((w*sum(x^2) - sum(x)^2) / (w*(w-1))), kept to
\* 1/StdScale; NaN on the first w-1 rows
StdScale == 100
RollingStd(xs, w) ==
    LET c == CumSum(xs)
        q == CumSum([i \in 1..Len(xs) |-> xs[i] * xs[i]])
    IN  Series([i \in 1..Len(xs) |->
            IF i < w THEN NaN
            ELSE LET s == WindowSum(c, i, w)
                     v == w * WindowSum(q, i, w) - s * s
                 IN  Num(ISqrt((v * StdScale * StdScale) \div (w * (w - 1))), StdScale)])

\* Series.ewm(span=s, adjust=False).mean() of a fixed-point column:
\* y[1] = x[1], y[t] = (1-a)*y[t-1] + a*x[t] with a = 2/(s+1)
RECURSIVE EwmFrom(_, _, _, _, _)
EwmFrom(xs, s, lo, hi, prev) ==
    IF lo > hi THEN <<>>
    ELSE IF lo = hi
         THEN <<IF lo = 1 THEN xs[1] ELSE ((s - 1) * prev + 2 * xs[lo]) \div (s + 1)>>
    ELSE LET mid == (lo + hi) \div 2
             left == EwmFrom(xs, s, lo, mid, prev)
         IN  left \o EwmFrom(xs, s, mid + 1, hi, left[Len(left)])

EwmMean(xs, s) == EwmFrom(xs, s, 1, Len(xs), 0)

\* Series.diff(): NaN on the first row
Diff(xs) == Series([i \in 1..Len(xs) |-> IF i = 1 THEN NaN ELSE F(xs[i] - xs[i - 1])])

\* Series.shift(p): NaN on the first p rows
Shift(xs, p) == Series([i \in 1..Len(xs) |-> IF i <= p THEN NaN ELSE F(xs[i - p])])


\* Series.where(cond, other) for the conditions delta > 0 and delta < 0:
\* a row where the condition is false (NaN included) gets `other`
WherePositive(xs, other) ==
    Series([i \in 1..Len(xs) |-> IF FGt(xs[i], F(0)) THEN xs[i] ELSE other])

\* the loss line written with the gain line's condition
WhereNegativeAsPositive(xs, other) ==
    Series([i \in 1..Len(xs) |-> IF FGt(xs[i], F(0)) THEN xs[i] ELSE other])

WhereNegative(xs, other) ==
    Series([i \in 1..Len(xs) |-> IF FLt(xs[i], F(0)) THEN xs[i] ELSE other])

\* Series.rolling(w).mean() of a float column whose values are whole numbers
\* or NaN: NaN unless the window holds w observations that are not NaN
\* (min_periods defaults to the window)
RollingMeanF(xs, w) ==
    LET c == CumSum([i \in 1..Len(xs) |-> IF IsNaN(xs[i]) THEN 0 ELSE xs[i].n])
        nans == CumSum([i \in 1..Len(xs) |-> IF IsNaN(xs[i]) THEN 1 ELSE 0])
    IN  Series([i \in 1..Len(xs) |->
            IF i < w \/ WindowSum(nans, i, w) > 0 THEN NaN
            ELSE Num(WindowSum(c, i, w), w)])

\* DataFrame.max(axis=1) of three columns: NaN cells are skipped (skipna)
FMax2(a, b) == IF IsNaN(a) THEN b ELSE IF IsNaN(b) THEN a ELSE IF FGt(b, a) THEN b ELSE a

RowMax3(a, b, c) == Series([i \in 1..Len(a) |-> FMax2(FMax2(a[i], b[i]), c[i])])

\* df[name]
Column(df, name) == Series([i \in 1..Len(df) |-> df[i][name]])

(***************************************************************************)
(* TechnicalAnalyzer.calculate_indicators: the frame with the indicator    *)
(* columns added, one row per input row, in input order.  An empty frame   *)
(* is returned as it is.  The columns are assigned to the frame that was   *)
(* passed in, and that frame is returned; an indicator column the frame    *)
(* already has is overwritten.                                             *)
(***************************************************************************)
\* lines 46-90: the indicator columns of a frame that is not empty
WithIndicators(df) ==
    LET n == Len(df)
        Close == Column(df, "Close")
        High == Column(df, "High")
        Low == Column(df, "Low")
        Volume == Column(df, "Volume")
        \* Moving Averages
        SMA_20 == RollingMean(Close, SMA20Window)
        SMA_50 == RollingMean(Close, SMA50Window)
        SMA_200 == RollingMean(Close, SMA200Window)
        closeFP == Series([i \in 1..n |-> Close[i] * FixedPoint])
        EMA_12 == EwmMean(closeFP, EMA12Span)
        EMA_26 == EwmMean(closeFP, EMA26Span)
        \* MACD
        MACD == Series([i \in 1..n |-> EMA_12[i] - EMA_26[i]])
        MACD_Signal == EwmMean(MACD, MACDSignalSpan)
        \* RSI
        delta == Diff(Close)
        gain == RollingMeanF(WherePositive(delta, F(0)), RSIWindow)
        negd == WhereNegative(delta, F(0))
        loss == RollingMeanF(Series([i \in 1..n |-> FNeg(negd[i])]), RSIWindow)
        rs == Series([i \in 1..n |-> FDiv(gain[i], loss[i])])
        RSI == [i \in 1..n |-> FSub(F(100), FDiv(F(100), FAdd(F(1), rs[i])))]
        \* Bollinger Bands
        BB_Middle == RollingMean(Close, BBWindow)
        bb_std == RollingStd(Close, BBWindow)
        BB_Upper == Series([i \in 1..n |-> FAdd(BB_Middle[i], FMul(bb_std[i], F(2)))])
        BB_Lower == Series([i \in 1..n |-> FSub(BB_Middle[i], FMul(bb_std[i], F(2)))])
        \* ATR
        prevClose == Shift(Close, 1)
        high_low == Series([i \in 1..n |-> F(High[i] - Low[i])])
        high_close == Series([i \in 1..n |-> FAbs(FSub(F(High[i]), prevClose[i]))])
        low_close == Series([i \in 1..n |-> FAbs(FSub(F(Low[i]), prevClose[i]))])
        true_range == RowMax3(high_low, high_close, low_close)
        ATR == RollingMeanF(true_range, ATRWindow)
        \* Volume indicators
        Volume_SMA_20 == RollingMean(Volume, VolumeWindow)
        \* Price momentum
        close10 == Shift(Close, 10)
        \* Support and Resistance
        Resistance == RollingMax(High, SRWindow)
        Support == RollingMin(Low, SRWindow)
    IN  [i \in 1..n |->
            [Date |-> df[i].Date, Open |-> df[i].Open, High |-> df[i].High,
             Low |-> df[i].Low, Close |-> df[i].Close, Volume |-> df[i].Volume,
             SMA_20 |-> SMA_20[i], SMA_50 |-> SMA_50[i], SMA_200 |-> SMA_200[i],
             EMA_12 |-> Num(EMA_12[i], FixedPoint), EMA_26 |-> Num(EMA_26[i], FixedPoint),
             MACD |-> Num(MACD[i], FixedPoint),
             MACD_Signal |-> Num(MACD_Signal[i], FixedPoint),
             MACD_Histogram |-> Num(MACD[i] - MACD_Signal[i], FixedPoint),
             RSI |-> RSI[i],
             BB_Middle |-> BB_Middle[i], BB_Upper |-> BB_Upper[i], BB_Lower |-> BB_Lower[i],
             BB_Width |-> FDiv(FSub(BB_Upper[i], BB_Lower[i]), BB_Middle[i]),
             ATR |-> ATR[i],
             Volume_SMA_20 |-> Volume_SMA_20[i],
             Volume_Ratio |-> FDiv(F(Volume[i]), Volume_SMA_20[i]),
             ROC |-> FMul(FDiv(FSub(F(Close[i]), close10[i]), close10[i]), F(100)),
             Momentum |-> FSub(F(Close[i]), close10[i]),
             Resistance |-> Resistance[i], Support |-> Support[i]]]

\* the frame returned newest row first
calculate_indicators_newest_first(df) ==
    IF Len(df) = 0 THEN df
    ELSE LET out == WithIndicators(df)
         IN  Series([i \in 1..Len(df) |-> out[Len(df) + 1 - i]])

calculate_indicators(df) == IF Len(df) = 0 THEN df ELSE WithIndicators(df)


(***************************************************************************)
(* The price histories the data provider may return: n daily bars whose    *)
(* close moves by a repeating cycle of daily changes, the last bars by     *)
(* the changes of `tail`; the lowest close is BasePrice.  High and Low lie *)
(* Spread above and below the close.  Every bar trades BaseVolume but the  *)
(* last, which trades lastVol.  The provider's dates are the row numbers;  *)
(* a frame that a caller hands to calculate_indicators itself may also     *)
(* carry a repeated or a misplaced date.                                   *)
(***************************************************************************)
Spread == 1
BaseVolume == 10

Cycles == {<<0>>, <<1>>, <<3>>, <<-1>>, <<2, -1>>, <<-2, 1>>, <<1, -1>>}

\* the endings: none, a one-day jump, a one-day drop, a drop followed by two
\* or by fourteen flat days, a jump followed by fourteen days of give and take
Tails ==
    {<<>>, <<12>>, <<-12>>, <<-12, 0, 0>>,
     <<-12, 0, 0, 0, 0, 0, 0, 0, 0, 0, 0, 0, 0, 0, 0>>,
     <<12, 1, -1, 1, -1, 1, -1, 1, -1, 1, -1, 1, -1, 1, -1>>}
LastVolumes == {BaseVolume, BaseVolume + 3, 2 * BaseVolume}
Lens == {0, 1, 2, 3, 13, 14, 15, 20, 50, 199, 200, 201, MaxLen}
CallerLens == {0, 1, 2, 3, 14, 15, 20}
DateKinds == {"increasing", "duplicate", "misplaced"}

\* the change of the close from row i-1 to row i (i >= 2)
DeltaAt(n, cyc, tail, i) ==
    IF i > n - Len(tail) THEN tail[i - (n - Len(tail))]
    ELSE cyc[((i - 2) % Len(cyc)) + 1]

\* the daily changes of the close as a column (0 on the first row)
DeltaCol(n, cyc, tail) == [i \in 1..n |-> IF i = 1 THEN 0 ELSE DeltaAt(n, cyc, tail, i)]

DateAt(n, kind, i) ==
    IF kind = "duplicate" /\ i = n /\ n > 1 THEN n - 1
    ELSE IF kind = "misplaced" /\ n > 1 /\ i = n THEN n - 1
    ELSE IF kind = "misplaced" /\ n > 1 /\ i = n - 1 THEN n
    ELSE i

RECURSIVE LowestIn(_, _, _)
LowestIn(xs, lo, hi) ==
    IF lo = hi THEN xs[lo]
    ELSE LET mid == (lo + hi) \div 2
             a == LowestIn(xs, lo, mid)
             b == LowestIn(xs, mid + 1, hi)
         IN  IF a < b THEN a ELSE b

Lowest(xs) == LowestIn(xs, 1, Len(xs))

MakeSeries(n, cyc, tail, lastVol, kind) ==
    LET path == CumSum(DeltaCol(n, cyc, tail))
        start == BasePrice - Lowest(path)
    IN  [i \in 1..n |->
            [Date |-> DateAt(n, kind, i),
             Open |-> start + path[i],
             High |-> start + path[i] + Spread,
             Low |-> start + path[i] - Spread,
             Close |-> start + path[i],
             Volume |-> IF i = n THEN lastVol ELSE BaseVolume]]


(***************************************************************************)
(* TechnicalAnalyzer._determine_trend.  sma_200 is None when the latest    *)
(* SMA_200 is NaN (analyze_stock); `a > b > c` is (a > b) and (b > c).      *)
(***************************************************************************)
\* the classifier with the plain-uptrend test placed first
_determine_trend_uptrend_first(latest, sma_20, sma_50, sma_200) ==
    LET price == F(latest.Close)
    IN  IF Truthy(sma_200) /\ FGt(price, sma_200)
        THEN "Uptrend"
        ELSE IF Truthy(sma_200) /\ FGt(price, sma_20) /\ FGt(sma_20, sma_50) /\ FGt(sma_50, sma_200)
        THEN "Strong Uptrend"
        ELSE IF Truthy(sma_200) /\ FLt(price, sma_20) /\ FLt(sma_20, sma_50) /\ FLt(sma_50, sma_200)
        THEN "Strong Downtrend"
        ELSE IF Truthy(sma_200) /\ FLt(price, sma_200)
        THEN "Downtrend"
        ELSE "Sideways/Consolidation"

\* the classifier without the test of the aligned averages
_determine_trend_without_alignment(latest, sma_20, sma_50, sma_200) ==
    LET price == F(latest.Close)
    IN  IF Truthy(sma_200) /\ FGt(price, sma_200)
        THEN "Uptrend"
        ELSE IF Truthy(sma_200) /\ FLt(price, sma_200)
        THEN "Downtrend"
        ELSE "Sideways/Consolidation"

_determine_trend(latest, sma_20, sma_50, sma_200) ==
    LET price == F(latest.Close)
    IN  IF Truthy(sma_200) /\ FGt(price, sma_20) /\ FGt(sma_20, sma_50) /\ FGt(sma_50, sma_200)
        THEN "Strong Uptrend"
        ELSE IF Truthy(sma_200) /\ FGt(price, sma_200)
        THEN "Uptrend"
        ELSE IF Truthy(sma_200) /\ FLt(price, sma_20) /\ FLt(sma_20, sma_50) /\ FLt(sma_50, sma_200)
        THEN "Strong Downtrend"
        ELSE IF Truthy(sma_200) /\ FLt(price, sma_200)
        THEN "Downtrend"
        ELSE "Sideways/Consolidation"

(***************************************************************************)
(* TechnicalAnalyzer._generate_signals.  The tags are the program's        *)
(* strings (the cross tags without their emoji); the high-volume tag is    *)
(* kept without its formatted ratio.  An elif branch is taken only when    *)
(* the branches before it in its chain were not.                           *)
(***************************************************************************)
RSIOversold == "RSI Oversold (<30)"
RSIOverbought == "RSI Overbought (>70)"
RSIBuyZone == "RSI in buy zone (30-50)"
MACDBullish == "MACD Bullish Crossover"
MACDBearish == "MACD Bearish Crossover"
PriceAboveSMA50 == "Price crossed above 50-day SMA"
PriceBelowSMA50 == "Price crossed below 50-day SMA"
BelowLowerBand == "Price below lower Bollinger Band"
AboveUpperBand == "Price above upper Bollinger Band"
GoldenCross == "Golden Cross (50 MA > 200 MA)"
DeathCross == "Death Cross (50 MA < 200 MA)"
HighVolume == "High volume"

\* an elif chain: the tag is appended only when nothing was appended before
AppendIfFirst(cond, list, tag) == IF cond /\ Len(list) = 0 THEN Append(list, tag) ELSE list

\* `if cond: list.append(tag)`
AppendIf(cond, list, tag) == IF cond THEN Append(list, tag) ELSE list

\* `not rsi >= 30`, which is true of NaN
RSIOversoldCondNegated(rsi) == ~FGe(rsi, F(30))

\* rsi < 30
RSIOversoldCond(rsi) == FLt(rsi, F(30))

\* the overbought test with 40 for 70
RSIOverboughtCondLow(rsi) == FGt(rsi, F(40))

\* rsi > 70
RSIOverboughtCond(rsi) == FGt(rsi, F(70))

\* the buy-zone test with its bounds excluded
RSIBuyZoneCondStrict(rsi) == FLt(F(30), rsi) /\ FLt(rsi, F(50))

\* 30 <= rsi <= 50
RSIBuyZoneCond(rsi) == FLe(F(30), rsi) /\ FLe(rsi, F(50))

\* the bullish test with `>=` for `>`
MACDBullishCondWeak(latest, prev) ==
    FGe(latest.MACD, latest.MACD_Signal) /\ FLe(prev.MACD, prev.MACD_Signal)

\* macd > macd_signal and prev['MACD'] <= prev['MACD_Signal']
MACDBullishCond(latest, prev) ==
    FGt(latest.MACD, latest.MACD_Signal) /\ FLe(prev.MACD, prev.MACD_Signal)

\* the bearish test with `<=` for `<`
MACDBearishCondWeak(latest, prev) ==
    FLe(latest.MACD, latest.MACD_Signal) /\ FGe(prev.MACD, prev.MACD_Signal)

\* macd < macd_signal and prev['MACD'] >= prev['MACD_Signal']
MACDBearishCond(latest, prev) ==
    FLt(latest.MACD, latest.MACD_Signal) /\ FGe(prev.MACD, prev.MACD_Signal)

\* the golden-cross test with `>=` for `>`
GoldenCrossCondWeak(latest, prev) ==
    FGe(latest.SMA_50, latest.SMA_200) /\ FLe(prev.SMA_50, prev.SMA_200)

\* latest['SMA_50'] > latest['SMA_200'] and prev['SMA_50'] <= prev['SMA_200']
GoldenCrossCond(latest, prev) ==
    FGt(latest.SMA_50, latest.SMA_200) /\ FLe(prev.SMA_50, prev.SMA_200)

\* latest['SMA_50'] < latest['SMA_200'] and prev['SMA_50'] >= prev['SMA_200']
DeathCrossCond(latest, prev) ==
    FLt(latest.SMA_50, latest.SMA_200) /\ FGe(prev.SMA_50, prev.SMA_200)

_generate_signals(latest, prev, df) ==
    LET price == F(latest.Close)
        rsi == latest.RSI
        bb_upper == latest.BB_Upper
        bb_lower == latest.BB_Lower
        \* RSI signals
        buy1 == AppendIf(RSIOversoldCond(rsi), <<>>, RSIOversold)
        sell1 == AppendIf(~RSIOversoldCond(rsi) /\ RSIOverboughtCond(rsi), <<>>, RSIOverbought)
        buy2 == AppendIf(~RSIOversoldCond(rsi) /\ ~RSIOverboughtCond(rsi)
                           /\ RSIBuyZoneCond(rsi), buy1, RSIBuyZone)
        \* MACD signals
        macdUp == MACDBullishCond(latest, prev)
        macdDown == MACDBearishCond(latest, prev)
        buy3 == AppendIf(macdUp, buy2, MACDBullish)
        sell3 == AppendIf(~macdUp /\ macdDown, sell1, MACDBearish)
        \* Moving Average signals
        maUp == FGt(price, latest.SMA_50) /\ FLe(F(prev.Close), prev.SMA_50)
        maDown == FLt(price, latest.SMA_50) /\ FGe(F(prev.Close), prev.SMA_50)
        buy4 == AppendIf(maUp, buy3, PriceAboveSMA50)
        sell4 == AppendIf(~maUp /\ maDown, sell3, PriceBelowSMA50)
        \* Bollinger Band signals
        buy5 == AppendIf(FLt(price, bb_lower), buy4, BelowLowerBand)
        sell5 == AppendIf(~FLt(price, bb_lower) /\ FGt(price, bb_upper), sell4, AboveUpperBand)
        \* Golden/Death Cross
        golden == GoldenCrossCond(latest, prev)
        death == DeathCrossCond(latest, prev)
        buy6 == AppendIf(golden, buy5, GoldenCross)
        sell6 == AppendIf(~golden /\ death, sell5, DeathCross)
        \* Volume confirmation
        neutral == AppendIf(FGt(latest.Volume_Ratio, Num(15, 10)), <<>>, HighVolume)
    IN  [buy_signals |-> buy6, sell_signals |-> sell6, neutral_signals |-> neutral]

(***************************************************************************)
(* TechnicalAnalyzer._recommend_strategies.  A price level is a float; a   *)
(* descriptive level is [k |-> "text"].  The free-text entry, position     *)
(* size, rationale and risk/reward fields are left out.                    *)
(***************************************************************************)
TrendFollowing == "Trend Following - Long"
MeanReversion == "Mean Reversion - Long"
Breakout == "Breakout Trading"
VolatilityExpansion == "Volatility Expansion Play"
PullbackBuy == "Pullback Buy in Uptrend"

Text(t) == [k |-> "text", text |-> t]

\* trend == 'Uptrend': the plain label only
ContainsUptrendExact(trend) == trend = "Uptrend"

\* 'Uptrend' in trend: the labels that contain the substring
ContainsUptrend(trend) == trend \in {"Strong Uptrend", "Uptrend"}

\* the mean-reversion test with `and` for `or`
MeanReversionCondBoth(rsi, price, bb_lower) == FLt(rsi, F(30)) /\ FLt(price, bb_lower)

\* rsi < 30 or price < latest['BB_Lower']
MeanReversionCond(rsi, price, bb_lower) == FLt(rsi, F(30)) \/ FLt(price, bb_lower)

\* the breakout test without the volume condition
BreakoutCondNoVolume(price, resistance, volume_ratio) ==
    FLt(FDiv(FAbs(FSub(price, resistance)), price), Num(2, 100))

\* resistance_near and latest['Volume_Ratio'] > 1.2
BreakoutCond(price, resistance, volume_ratio) ==
    LET resistance_near == FLt(FDiv(FAbs(FSub(price, resistance)), price), Num(2, 100))
    IN  resistance_near /\ FGt(volume_ratio, Num(12, 10))

\* the squeeze test that also wants the bands apart
VolatilityCondPositive(bb_width) == FLt(F(0), bb_width) /\ FLt(bb_width, Num(1, 10))

\* bb_width < 0.1
VolatilityCond(bb_width) == FLt(bb_width, Num(1, 10))

\* the pullback test for any label that contains 'Uptrend'
PullbackCondAnyUptrend(trend, rsi) ==
    trend \in {"Strong Uptrend", "Uptrend"} /\ FLe(F(40), rsi) /\ FLe(rsi, F(50))

\* trend == 'Strong Uptrend' and 40 <= rsi <= 50
PullbackCond(trend, rsi) == trend = "Strong Uptrend" /\ FLe(F(40), rsi) /\ FLe(rsi, F(50))

_recommend_strategies(ticker, latest, df, trend, signals) ==
    LET price == F(latest.Close)
        atr == latest.ATR
        rsi == latest.RSI
        bb_width == latest.BB_Width
        \* Strategy 1: Trend Following
        s1 == AppendIf(ContainsUptrend(trend), <<>>,
                [strategy |-> TrendFollowing,
                 stop_loss |-> FSub(price, FMul(F(2), atr)),
                 take_profit_1 |-> FAdd(price, FMul(F(2), atr)),
                 take_profit_2 |-> FAdd(price, FMul(F(3), atr))])
        \* Strategy 2: Mean Reversion
        s2 == AppendIf(MeanReversionCond(rsi, price, latest.BB_Lower), s1,
                [strategy |-> MeanReversion,
                 stop_loss |-> latest.Support,
                 take_profit_1 |-> latest.BB_Middle,
                 take_profit_2 |-> latest.SMA_20])
        \* Strategy 3: Breakout
        s3 == AppendIf(BreakoutCond(price, latest.Resistance, latest.Volume_Ratio), s2,
                [strategy |-> Breakout,
                 stop_loss |-> latest.SMA_20,
                 take_profit_1 |-> FAdd(latest.Resistance, FSub(latest.Resistance, latest.Support)),
                 take_profit_2 |-> FAdd(latest.Resistance,
                                        FMul(F(2), FSub(latest.Resistance, latest.Support)))])
        \* Strategy 4: Volatility Contraction
        s4 == AppendIf(VolatilityCond(bb_width), s3,
                [strategy |-> VolatilityExpansion,
                 stop_loss |-> Text("Opposite side of consolidation range"),
                 take_profit_1 |-> Text("ATR-based target")])
        \* Strategy 5: Pullback in Uptrend
        s5 == AppendIf(PullbackCond(trend, rsi), s4,
                [strategy |-> PullbackBuy,
                 stop_loss |-> latest.SMA_50,
                 take_profit_1 |-> latest.Resistance,
                 take_profit_2 |-> FMul(latest.Resistance, Num(105, 100))])
    IN  s5

(***************************************************************************)
(* TechnicalAnalyzer.analyze_stock after the fetch: the dictionary it      *)
(* returns for a non-empty frame (the two timestamps are left out).        *)
(***************************************************************************)
NoAnalysis == [empty |-> TRUE]

BuildAnalysis(ticker, frame) ==
    LET latest == frame[Len(frame)]
        prev == IF Len(frame) > 1 THEN frame[Len(frame) - 1] ELSE latest
        current_price == F(latest.Close)
        sma_20 == latest.SMA_20
        sma_50 == latest.SMA_50
        sma_200 == IF ~IsNaN(latest.SMA_200) THEN latest.SMA_200 ELSE None
        trend == _determine_trend(latest, sma_20, sma_50, sma_200)
        atr == latest.ATR
        signals == _generate_signals(latest, prev, frame)
        strategies == _recommend_strategies(ticker, latest, frame, trend, signals)
    IN  [empty |-> FALSE,
         ticker |-> ticker,
         current_price |-> current_price,
         trend |-> trend,
         indicators |-> [sma_20 |-> sma_20, sma_50 |-> sma_50, sma_200 |-> sma_200,
                         rsi |-> latest.RSI, macd |-> latest.MACD,
                         macd_signal |-> latest.MACD_Signal, atr |-> atr,
                         atr_percent |-> FMul(FDiv(atr, current_price), F(100)),
                         bb_width |-> latest.BB_Width,
                         volume_ratio |-> latest.Volume_Ratio],
         price_levels |-> [support |-> latest.Support, resistance |-> latest.Resistance,
                           bb_upper |-> latest.BB_Upper, bb_lower |-> latest.BB_Lower],
         signals |-> signals,
         strategies |-> strategies]


(***************************************************************************)
(* OptimizedAIScreener: the fundamentals of one ticker and the filter.     *)
(* Market caps and net incomes are in millions of dollars.  An optional    *)
(* value is [none |-> TRUE] for Python's None or a missing key.            *)
(***************************************************************************)
min_market_cap == 300
max_market_cap == 5000

NoneValue == [none |-> TRUE, v |-> 0]

Some(x) == [none |-> FALSE, v |-> x]

\* what the provider holds for a ticker: whether reading stock.info raises,
\* whether info has the marketCap key and its value, which rows the income
\* statement has (none at all, neither net-income row, 'Net Income', or
\* only 'Net Income From Continuing Operations') and the latest net income
Quote(raises, hasCap, cap, stmt, income) ==
    [info_raises |-> raises, has_cap |-> hasCap, cap |-> cap, stmt |-> stmt,
     net_income |-> income]

NoQuote == Quote(FALSE, FALSE, NoneValue, "none", 0)

\* lines 172-221: is_profitable is None without a statement or a net-income
\* row, else latest_net_income > 0
check_profitability_from_financials(quote) ==
    IF quote.stmt \in {"none", "no_net_income"}
    THEN [is_profitable |-> NoneValue, net_income |-> NoneValue]
    ELSE [is_profitable |-> Some(quote.net_income > 0), net_income |-> Some(quote.net_income)]

\* a record of the screener, or None
NoRecord ==
    [none |-> TRUE, ticker |-> "", market_cap |-> NoneValue,
     is_profitable |-> NoneValue, net_income |-> NoneValue]

\* lines 223-254: None when stock.info raises or the market cap is 0 or
\* missing (info.get('marketCap', 0)); a marketCap of None is kept
get_stock_fundamentals(ticker, quote) ==
    IF quote.info_raises THEN NoRecord
    ELSE LET market_cap == IF quote.has_cap THEN quote.cap ELSE Some(0)
             profitability == check_profitability_from_financials(quote)
         IN  IF market_cap = Some(0) THEN NoRecord
             ELSE [none |-> FALSE, ticker |-> ticker, market_cap |-> market_cap,
                   is_profitable |-> profitability.is_profitable,
                   net_income |-> profitability.net_income]

\* the range test without the upper bound
OutOfRangeLowOnly(market_cap) == market_cap < min_market_cap

\* line 271: market_cap < self.min_market_cap or market_cap > self.max_market_cap
OutOfRange(market_cap) == market_cap < min_market_cap \/ market_cap > max_market_cap

\* lines 256-294: the record when it passes every filter, else None;
\* comparing a market cap of None with a number raises TypeError
screen_ticker(ticker, quote) ==
    LET data == get_stock_fundamentals(ticker, quote)
    IN  IF data.none THEN [raised |-> FALSE, data |-> NoRecord]
        ELSE IF data.market_cap.none THEN [raised |-> TRUE, data |-> NoRecord]
        ELSE IF OutOfRange(data.market_cap.v) THEN [raised |-> FALSE, data |-> NoRecord]
        ELSE IF data.is_profitable.none THEN [raised |-> FALSE, data |-> NoRecord]
        ELSE IF ~data.is_profitable.v THEN [raised |-> FALSE, data |-> NoRecord]
        ELSE [raised |-> FALSE, data |-> data]

\* the market caps and net incomes a provider may report
QuoteCaps ==
    {Some(0), NoneValue, Some(min_market_cap - 1), Some(min_market_cap), Some(1000),
     Some(max_market_cap), Some(max_market_cap + 1)}

QuoteIncomes == {-5, 0, 1, 7}

Quotes ==
    {Quote(FALSE, TRUE, cap, stmt, income) :
        cap \in QuoteCaps, stmt \in {"net_income", "continuing"}, income \in QuoteIncomes}
    \cup {Quote(FALSE, TRUE, cap, stmt, 0) : cap \in QuoteCaps, stmt \in {"none", "no_net_income"}}
    \cup {Quote(FALSE, FALSE, NoneValue, "net_income", 7), Quote(TRUE, FALSE, NoneValue, "none", 0)}

(***************************************************************************)
(* State.  Each program of the repository has its own variables; a program *)
(* leaves the variables of the others alone.                               *)
(***************************************************************************)
\* TechnicalAnalyzer.analyze_stock and calculate_indicators
\*   pc: position of the current call
\*   df: the price frame fetched or passed in
\*   enriched: the frame calculate_indicators returned
\*   again: the frame a second calculate_indicators call on the same frame returned
\*   analysis: the dictionary analyze_stock returned
\*   fetch_failed: the provider raised and get_price_data caught it
\*   raised: an exception reached the caller
VARIABLES pc, df, enriched, again, analysis, fetch_failed, raised

analyzerVars == <<pc, df, enriched, again, analysis, fetch_failed, raised>>

\* TechnicalAnalyzer.analyze_batch
\*   batch_pc: position of the batch call
\*   batch_market: what the data provider answers for each ticker
\*   batch_tickers: the tickers argument
\*   batch_i: the loop's position in tickers
\*   batch_results: the results list
\*   batch_saved: the list written to the technical_analysis JSON file
VARIABLES batch_pc, batch_market, batch_tickers, batch_i, batch_results, batch_saved

batchVars == <<batch_pc, batch_market, batch_tickers, batch_i, batch_results, batch_saved>>

\* OptimizedAIScreener.screen_ticker
\*   st_pc: position of the screen_ticker call
\*   st_quote: what the data provider holds for the ticker
\*   st_data: the record get_stock_fundamentals returned
\*   st_result: the record screen_ticker returned
\*   st_raised: screen_ticker raised
VARIABLES st_pc, st_quote, st_data, st_result, st_raised

tickerVars == <<st_pc, st_quote, st_data, st_result, st_raised>>

\* OptimizedAIScreener.screen_parallel
\*   sp_pc: position of the screen_parallel call
\*   sp_tickers: the tickers argument
\*   sp_quotes: what the data provider holds for each ticker
\*   sp_workers: max_workers
\*   sp_task: each submitted task: pending, running, finished (its future is done) or collected (as_completed has yielded it)
\*   sp_calls: how many times screen_ticker was called for each ticker
\*   sp_outcome: what each finished task holds: a record, None or an exception
\*   sp_results: the results list
\*   sp_frame: the frame screen_parallel returned
VARIABLES sp_pc, sp_tickers, sp_quotes, sp_workers, sp_task, sp_calls, sp_outcome, sp_results, sp_frame

parallelVars == <<sp_pc, sp_tickers, sp_quotes, sp_workers, sp_task, sp_calls, sp_outcome, sp_results, sp_frame>>

\* OptimizedAIScreener._get_tickers_by_sic_optimized
\*   pg_pc: position of the _get_tickers_by_sic_optimized call
\*   pg_tickers: len(tickers), the number of tickers collected
\*   pg_next_url: next_url of the last response
\*   pg_error: a request raised and the except clause caught it
VARIABLES pg_pc, pg_tickers, pg_next_url, pg_error

paginationVars == <<pg_pc, pg_tickers, pg_next_url, pg_error>>

\* AnalysisPipeline.run_complete_analysis
\*   pl_pc: position of the run_complete_analysis call
\*   pl_df: df_screened, the rows screening returned
\*   pl_i: the statement of PipelineStatements that runs next
\*   pl_stats: the keys of the stats dictionary
\*   pl_stages: the stages that were started, in order
\*   pl_report: the comprehensive report was written
\*   pl_complete: the 'analysis pipeline complete' step was reached
\*   pl_error: the exception that left run_complete_analysis
VARIABLES pl_pc, pl_df, pl_i, pl_stats, pl_stages, pl_report, pl_complete, pl_error

pipelineVars == <<pl_pc, pl_df, pl_i, pl_stats, pl_stages, pl_report, pl_complete, pl_error>>

\* AnalysisPipeline._print_top_opportunities
\*   op_pc: position of the _print_top_opportunities call
\*   op_data: final_data, the list of combined stock dictionaries
\*   op_printed: the stocks printed, in print order
VARIABLES op_pc, op_data, op_printed

opportunityVars == <<op_pc, op_data, op_printed>>

\* SentimentAnalyzer._analyze_news_articles
\*   sa_pc: position of the _analyze_news_articles call
\*   sa_articles: the articles argument
\*   sa_rounding: the sign of the rounding error of the float mean
\*   sa_result: the dictionary _analyze_news_articles returned
VARIABLES sa_pc, sa_articles, sa_rounding, sa_result

sentimentVars == <<sa_pc, sa_articles, sa_rounding, sa_result>>

\* ParquetReader.get_stock_daily and get_options_daily
\*   pq_pc: position of the query call
\*   pq_function: the function called: get_stock_daily or get_options_daily
\*   pq_path_exists: the Parquet directory of the function exists
\*   pq_limit: the limit argument
\*   pq_matching: the number of rows of the table that pass the WHERE clause
\*   pq_query: the clauses of the generated query
\*   pq_result: len(result) of the frame returned, NoneValue when None is returned
VARIABLES pq_pc, pq_function, pq_path_exists, pq_limit, pq_matching, pq_query, pq_result

queryVars == <<pq_pc, pq_function, pq_path_exists, pq_limit, pq_matching, pq_query, pq_result>>

vars == <<analyzerVars, batchVars, tickerVars, parallelVars, paginationVars, pipelineVars, opportunityVars, sentimentVars, queryVars>>

\* the state of the other programs
otherThanAnalyzer == <<batchVars, tickerVars, parallelVars, paginationVars, pipelineVars, opportunityVars, sentimentVars, queryVars>>

\* the state of the other programs
otherThanBatch == <<analyzerVars, tickerVars, parallelVars, paginationVars, pipelineVars, opportunityVars, sentimentVars, queryVars>>

\* the state of the other programs
otherThanTicker == <<analyzerVars, batchVars, parallelVars, paginationVars, pipelineVars, opportunityVars, sentimentVars, queryVars>>

\* the state of the other programs
otherThanParallel == <<analyzerVars, batchVars, tickerVars, paginationVars, pipelineVars, opportunityVars, sentimentVars, queryVars>>

\* the state of the other programs
otherThanPagination == <<analyzerVars, batchVars, tickerVars, parallelVars, pipelineVars, opportunityVars, sentimentVars, queryVars>>

\* the state of the other programs
otherThanPipeline == <<analyzerVars, batchVars, tickerVars, parallelVars, paginationVars, opportunityVars, sentimentVars, queryVars>>

\* the state of the other programs
otherThanOpportunity == <<analyzerVars, batchVars, tickerVars, parallelVars, paginationVars, pipelineVars, sentimentVars, queryVars>>

\* the state of the other programs
otherThanSentiment == <<analyzerVars, batchVars, tickerVars, parallelVars, paginationVars, pipelineVars, opportunityVars, queryVars>>

\* the state of the other programs
otherThanQuery == <<analyzerVars, batchVars, tickerVars, parallelVars, paginationVars, pipelineVars, opportunityVars, sentimentVars>>

Ticker == "QLYS"

FramesOfLen(n, kinds) ==
    {MakeSeries(n, cyc, tail, v, kind) :
        cyc \in Cycles, tail \in {t \in Tails : Len(t) < n},
        v \in LastVolumes, kind \in kinds}

ProviderFrames == UNION {FramesOfLen(n, {"increasing"}) : n \in Lens}

CallerFrames == UNION {FramesOfLen(n, DateKinds) : n \in CallerLens}

Init ==
    /\ pc = "start"
    /\ df = <<>>
    /\ enriched = <<>>
    /\ again = <<>>
    /\ analysis = NoAnalysis
    /\ fetch_failed = FALSE
    /\ raised = FALSE
    /\ batch_pc = "start"
    /\ batch_market = <<>>
    /\ batch_tickers = <<>>
    /\ batch_i = 0
    /\ batch_results = <<>>
    /\ batch_saved = <<>>
    /\ st_pc = "start"
    /\ st_quote = NoQuote
    /\ st_data = NoRecord
    /\ st_result = NoRecord
    /\ st_raised = FALSE
    /\ sp_pc = "start"
    /\ sp_tickers = {}
    /\ sp_quotes = <<>>
    /\ sp_workers = 0
    /\ sp_task = <<>>
    /\ sp_calls = <<>>
    /\ sp_outcome = <<>>
    /\ sp_results = <<>>
    /\ sp_frame = <<>>
    /\ pg_pc = "start"
    /\ pg_tickers = 0
    /\ pg_next_url = "None"
    /\ pg_error = FALSE
    /\ pl_pc = "start"
    /\ pl_df = <<>>
    /\ pl_i = 0
    /\ pl_stats = {}
    /\ pl_stages = <<>>
    /\ pl_report = FALSE
    /\ pl_complete = FALSE
    /\ pl_error = "None"
    /\ op_pc = "start"
    /\ op_data = <<>>
    /\ op_printed = <<>>
    /\ sa_pc = "start"
    /\ sa_articles = <<>>
    /\ sa_rounding = 0
    /\ sa_result = <<>>
    /\ pq_pc = "start"
    /\ pq_function = ""
    /\ pq_path_exists = TRUE
    /\ pq_limit = NoneValue
    /\ pq_matching = 0
    /\ pq_query = <<>>
    /\ pq_result = NoneValue

\* analyze_stock, line 103: get_price_data returns the provider's frame, or
\* an empty frame when the provider raises
GetPriceData ==
    /\ pc = "start"
    /\ \/ \E frame \in ProviderFrames : df' = frame /\ fetch_failed' = FALSE
       \/ df' = <<>> /\ fetch_failed' = TRUE
    /\ pc' = "fetched"
    /\ UNCHANGED <<enriched, again, analysis, raised>>
    /\ UNCHANGED otherThanAnalyzer

\* analyze_stock, lines 105-107: no data, return {}
ReturnNoData ==
    /\ pc = "fetched"
    /\ Len(df) = 0
    /\ analysis' = NoAnalysis
    /\ pc' = "returned"
    /\ UNCHANGED <<df, enriched, again, fetch_failed, raised>>
    /\ UNCHANGED otherThanAnalyzer

\* analyze_stock, line 109
CalculateIndicators ==
    /\ pc = "fetched"
    /\ Len(df) > 0
    /\ enriched' = calculate_indicators(df)
    /\ pc' = "indicators"
    /\ UNCHANGED <<df, again, analysis, fetch_failed, raised>>
    /\ UNCHANGED otherThanAnalyzer

\* analyze_stock, lines 111-174
Analyze ==
    /\ pc = "indicators"
    /\ analysis' = BuildAnalysis(Ticker, enriched)
    /\ pc' = "returned"
    /\ UNCHANGED <<df, enriched, again, fetch_failed, raised>>
    /\ UNCHANGED otherThanAnalyzer

\* a direct call of calculate_indicators on a caller's frame
CallCalculateIndicators ==
    /\ pc = "start"
    /\ \E frame \in CallerFrames :
          /\ df' = frame
          /\ enriched' = calculate_indicators(frame)
    /\ pc' = "calculated"
    /\ UNCHANGED <<again, analysis, fetch_failed, raised>>
    /\ UNCHANGED otherThanAnalyzer

\* a second call of calculate_indicators on the frame the first call
\* returned, which is the caller's frame with the columns assigned
CallCalculateIndicatorsAgain ==
    /\ pc = "calculated"
    /\ again' = calculate_indicators(enriched)
    /\ pc' = "recalculated"
    /\ UNCHANGED <<df, enriched, analysis, fetch_failed, raised>>
    /\ UNCHANGED otherThanAnalyzer

\* the call is over; the analyzer keeps nothing between calls
Return ==
    /\ pc \in {"returned", "calculated", "recalculated"}
    /\ pc' = "start"
    /\ df' = <<>>
    /\ enriched' = <<>>
    /\ again' = <<>>
    /\ analysis' = NoAnalysis
    /\ fetch_failed' = FALSE
    /\ UNCHANGED raised
    /\ UNCHANGED otherThanAnalyzer

Next ==
    \/ GetPriceData
    \/ ReturnNoData
    \/ CalculateIndicators
    \/ Analyze
    \/ CallCalculateIndicators
    \/ CallCalculateIndicatorsAgain
    \/ Return

Spec == Init /\ [][Next]_vars


(***************************************************************************)
(* Properties.                                                             *)
(***************************************************************************)
\* analyze_stock has returned an analysis of a non-empty frame
Analyzed == pc = "returned" /\ ~analysis.empty

\* calculate_indicators has returned (inside analyze_stock or called directly)
Calculated == pc \in {"indicators", "returned", "calculated", "recalculated"} /\ Len(df) > 0

Latest == enriched[Len(enriched)]

Previous == IF Len(enriched) > 1 THEN enriched[Len(enriched) - 1] ELSE Latest

InSeq(x, list) == \E i \in 1..Len(list) : list[i] = x

TrendLabels ==
    {"Strong Uptrend", "Uptrend", "Strong Downtrend", "Downtrend", "Sideways/Consolidation"}

\* C1: the trend of every analysis is one of the five labels, the first in
\* the order strong uptrend, uptrend, strong downtrend, downtrend whose rule
\* holds on the latest snapshot (each rule needs SMA-200 defined), and
\* sideways when none does.
C1_TrendFirstMatch ==
    Analyzed =>
        LET price == F(Latest.Close)
            sma20 == Latest.SMA_20
            sma50 == Latest.SMA_50
            sma200 == Latest.SMA_200
            defined == ~IsNaN(sma200)
            expected ==
                IF defined /\ FGt(price, sma20) /\ FGt(sma20, sma50) /\ FGt(sma50, sma200)
                THEN "Strong Uptrend"
                ELSE IF defined /\ FGt(price, sma200) THEN "Uptrend"
                ELSE IF defined /\ FLt(price, sma20) /\ FLt(sma20, sma50) /\ FLt(sma50, sma200)
                THEN "Strong Downtrend"
                ELSE IF defined /\ FLt(price, sma200) THEN "Downtrend"
                ELSE "Sideways/Consolidation"
        IN  analysis.trend \in TrendLabels /\ analysis.trend = expected

\* an analysis whose latest snapshot satisfies both uptrend rules and is
\* labelled by the first
C1_Witness ==
    /\ Analyzed
    /\ analysis.trend = "Strong Uptrend"
    /\ FGt(F(Latest.Close), Latest.SMA_200)

\* C2: the analysis of a series of fewer than 200 bars is labelled sideways.
C2_ShortSeriesSideways ==
    (Analyzed /\ Len(df) < SMA200Window) => analysis.trend = "Sideways/Consolidation"

\* a 199-bar series with price > SMA-20 > SMA-50, labelled sideways
C2_Witness ==
    /\ Analyzed
    /\ Len(df) = SMA200Window - 1
    /\ FGt(F(Latest.Close), Latest.SMA_20)
    /\ FGt(Latest.SMA_20, Latest.SMA_50)
    /\ analysis.trend = "Sideways/Consolidation"

StrategyKinds(list) == [i \in 1..Len(list) |-> list[i].strategy]

Only(cond, kind) == IF cond THEN <<kind>> ELSE <<>>

\* C3: the strategy list holds exactly the suggestions whose own condition
\* holds, each once, in the order trend-following, mean-reversion, breakout,
\* volatility-expansion, pullback-buy.
C3_IndependentRules ==
    Analyzed =>
        LET price == F(Latest.Close)
            rsi == Latest.RSI
            trendFollowing == analysis.trend \in {"Uptrend", "Strong Uptrend"}
            meanReversion == FLt(rsi, F(30)) \/ FLt(price, Latest.BB_Lower)
            breakout ==
                /\ FLt(FDiv(FAbs(FSub(price, Latest.Resistance)), price), Num(2, 100))
                /\ FGt(Latest.Volume_Ratio, Num(12, 10))
            volatility == FLt(Latest.BB_Width, Num(1, 10))
            pullback == analysis.trend = "Strong Uptrend" /\ FLe(F(40), rsi) /\ FLe(rsi, F(50))
        IN  /\ StrategyKinds(analysis.strategies) =
                 Only(trendFollowing, TrendFollowing) \o Only(meanReversion, MeanReversion)
                   \o Only(breakout, Breakout) \o Only(volatility, VolatilityExpansion)
                   \o Only(pullback, PullbackBuy)
            /\ Len(analysis.strategies) \in 0..5

\* an analysis in which three rules fire together
C3_Witness ==
    /\ Analyzed
    /\ StrategyKinds(analysis.strategies) = <<TrendFollowing, Breakout, VolatilityExpansion>>


\* the close-to-close change into row i of the input (i >= 2)
CloseChange(i) == df[i].Close - df[i - 1].Close

\* the sum of the losses over the 14 rows ending at row i; the first row of
\* the frame has no change and counts as no loss
RECURSIVE LossSum(_, _)
LossSum(i, k) ==
    IF k = 0 THEN 0
    ELSE (IF i >= 2 /\ CloseChange(i) < 0 THEN -CloseChange(i) ELSE 0) + LossSum(i - 1, k - 1)

\* C4: every row with a full 14-bar window whose average loss is zero has
\* RSI = 100, the rows of a flat window included.
C4_ZeroLossIsHundred ==
    Calculated =>
        \A i \in RSIWindow..Len(enriched) :
            LossSum(i, RSIWindow) = 0 => enriched[i].RSI = F(100)

\* C5: the RSI of every row with a full 14-bar window lies in [0, 100].
C5_RSIInRange ==
    Calculated =>
        \A i \in RSIWindow..Len(enriched) :
            FLe(F(0), enriched[i].RSI) /\ FLe(enriched[i].RSI, F(100))

StrictlyIncreasingDates(frame) ==
    \A i \in 2..Len(frame) : frame[i - 1].Date < frame[i].Date

\* C6: a frame whose dates are not strictly increasing is rejected: the
\* call raises and returns no indicator rows.
C6_RejectsDisorderedDates ==
    (pc = "calculated" /\ ~StrictlyIncreasingDates(df)) => (raised /\ enriched = <<>>)

\* the rolling-window indicators of a row are all undefined
WindowIndicatorsUndefined(row) ==
    /\ IsNaN(row.SMA_20) /\ IsNaN(row.SMA_50) /\ IsNaN(row.SMA_200)
    /\ IsNaN(row.RSI) /\ IsNaN(row.ATR)
    /\ IsNaN(row.BB_Middle) /\ IsNaN(row.BB_Upper) /\ IsNaN(row.BB_Lower) /\ IsNaN(row.BB_Width)
    /\ IsNaN(row.Volume_SMA_20) /\ IsNaN(row.Volume_Ratio)
    /\ IsNaN(row.Resistance) /\ IsNaN(row.Support)

EmptyFrameHandled ==
    /\ (pc = "calculated" /\ Len(df) = 0) => (enriched = <<>> /\ ~raised)
    /\ (pc = "returned" /\ Len(df) = 0) => (analysis = NoAnalysis /\ ~raised)

C8_SingleRowNoSignals ==
    (Analyzed /\ Len(enriched) < 2) =>
        /\ analysis.signals.buy_signals = <<>>
        /\ analysis.signals.sell_signals = <<>>
        /\ analysis.signals.neutral_signals = <<>>

\* the analysis of a one-row series, whose MACD and signal line are equal
C8_Witness ==
    /\ Analyzed
    /\ Len(enriched) = 1
    /\ Latest.MACD = Latest.MACD_Signal
    /\ analysis.signals.buy_signals = <<>>

\* C9: no windowed indicator has a value on a row with less than a full
\* window of real observations: SMA(w), Bollinger, volume average and
\* support/resistance on the first w-1 rows, RSI and ATR on the first 14
\* rows (14 changes and 14 true ranges with a previous close need 15 rows).
C9_NoPartialWindows ==
    Calculated =>
        \A i \in 1..Len(enriched) :
            /\ i < SMA20Window => IsNaN(enriched[i].SMA_20)
            /\ i < SMA50Window => IsNaN(enriched[i].SMA_50)
            /\ i < SMA200Window => IsNaN(enriched[i].SMA_200)
            /\ i < BBWindow =>
                  /\ IsNaN(enriched[i].BB_Middle) /\ IsNaN(enriched[i].BB_Upper)
                  /\ IsNaN(enriched[i].BB_Lower) /\ IsNaN(enriched[i].BB_Width)
            /\ i < VolumeWindow => IsNaN(enriched[i].Volume_SMA_20)
            /\ i < SRWindow => IsNaN(enriched[i].Resistance) /\ IsNaN(enriched[i].Support)
            /\ i < RSIWindow + 1 => IsNaN(enriched[i].RSI)
            /\ i < ATRWindow + 1 => IsNaN(enriched[i].ATR)

\* C10: the golden-cross tag is emitted only when SMA-50 is above SMA-200
\* now and was not above it before, the death-cross tag only when SMA-50 is
\* below SMA-200 now and was not below it before, and never both.
C10_CrossesExclusive ==
    Analyzed =>
        LET golden == InSeq(GoldenCross, analysis.signals.buy_signals)
            death == InSeq(DeathCross, analysis.signals.sell_signals)
        IN  /\ golden => (FGt(Latest.SMA_50, Latest.SMA_200) /\ FLe(Previous.SMA_50, Previous.SMA_200))
            /\ death => (FLt(Latest.SMA_50, Latest.SMA_200) /\ FGe(Previous.SMA_50, Previous.SMA_200))
            /\ ~(golden /\ death)

\* an analysis that signals the golden cross
C10_Witness ==
    /\ Analyzed
    /\ InSeq(GoldenCross, analysis.signals.buy_signals)
    /\ ~InSeq(DeathCross, analysis.signals.sell_signals)

\* how many times x occurs in a list
Count(x, list) == Cardinality({i \in 1..Len(list) : list[i] = x})

Buys == analysis.signals.buy_signals

Sells == analysis.signals.sell_signals

\* C11: an analysis carries at most one RSI tag: the oversold tag (buy) iff
\* RSI < 30, the overbought tag (sell) iff RSI > 70, the buy-zone tag (buy)
\* iff 30 <= RSI <= 50, and none when 50 < RSI <= 70 or RSI is undefined.
C11_OneRSITagByPriority ==
    Analyzed =>
        LET rsi == Latest.RSI
            oversold == Count(RSIOversold, Buys)
            overbought == Count(RSIOverbought, Sells)
            buyZone == Count(RSIBuyZone, Buys)
        IN  /\ oversold + overbought + buyZone <= 1
            /\ oversold = 1 <=> FLt(rsi, F(30))
            /\ overbought = 1 <=> FGt(rsi, F(70))
            /\ buyZone = 1 <=> (FLe(F(30), rsi) /\ FLe(rsi, F(50)))
            /\ ((FLt(F(50), rsi) /\ FLe(rsi, F(70))) \/ IsNaN(rsi)) =>
                   oversold + overbought + buyZone = 0
            /\ ~InSeq(RSIOversold, Sells) /\ ~InSeq(RSIBuyZone, Sells)
            /\ ~InSeq(RSIOverbought, Buys)

\* an analysis whose RSI is exactly 50 and carries the buy-zone tag alone
C11_Witness ==
    /\ Analyzed
    /\ Latest.RSI = F(50)
    /\ Count(RSIBuyZone, Buys) = 1
    /\ Count(RSIOversold, Buys) = 0

\* C12: the MACD bullish tag is in the buy set iff the previous MACD was at
\* or below its signal line and the current MACD is above it; the bearish
\* tag is in the sell set iff the previous MACD was at or above its signal
\* line and the current MACD is below it; when MACD is strictly on one side
\* of the signal line on both snapshots neither tag is emitted.
C12_MACDCrossovers ==
    Analyzed =>
        LET up == FLe(Previous.MACD, Previous.MACD_Signal) /\ FGt(Latest.MACD, Latest.MACD_Signal)
            down == FGe(Previous.MACD, Previous.MACD_Signal) /\ FLt(Latest.MACD, Latest.MACD_Signal)
            above(row) == FGt(row.MACD, row.MACD_Signal)
            below(row) == FLt(row.MACD, row.MACD_Signal)
            oneSide == (above(Previous) /\ above(Latest)) \/ (below(Previous) /\ below(Latest))
        IN  /\ Count(MACDBullish, Buys) = (IF up THEN 1 ELSE 0)
            /\ Count(MACDBearish, Sells) = (IF down THEN 1 ELSE 0)
            /\ ~InSeq(MACDBullish, Sells) /\ ~InSeq(MACDBearish, Buys)
            /\ oneSide => (~InSeq(MACDBullish, Buys) /\ ~InSeq(MACDBearish, Sells))

\* a series of more than two rows whose MACD was at its signal line or above
\* it and has fallen below it: the bearish tag is emitted
C12_Witness ==
    /\ Analyzed
    /\ Len(enriched) > 2
    /\ FGe(Previous.MACD, Previous.MACD_Signal)
    /\ Count(MACDBearish, Sells) = 1
    /\ Count(MACDBullish, Buys) = 0

\* the suggestion of the given kind is in the strategy list
Suggested(kind) == \E i \in 1..Len(analysis.strategies) : analysis.strategies[i].strategy = kind

\* the suggestions of the given kind
SuggestionsOf(kind) ==
    {analysis.strategies[i] : i \in {j \in 1..Len(analysis.strategies) :
                                        analysis.strategies[j].strategy = kind}}

\* the float p + m*a for an integer price p, an integer m and a finite a
PricePlus(p, m, a) == Num(p * a.d + m * a.n, a.d)

\* C13: the trend-following suggestion is returned iff the trend label is
\* uptrend or strong uptrend, never for the other three labels; its stop is
\* price - 2*ATR and its targets price + 2*ATR and price + 3*ATR, so that
\* stop < price < target 1 < target 2 whenever ATR > 0.
C13_TrendFollowing ==
    Analyzed =>
        LET price == Latest.Close
            atr == Latest.ATR
        IN  /\ Suggested(TrendFollowing) <=> analysis.trend \in {"Uptrend", "Strong Uptrend"}
            /\ analysis.trend \in {"Sideways/Consolidation", "Downtrend", "Strong Downtrend"} =>
                   ~Suggested(TrendFollowing)
            /\ \A s \in SuggestionsOf(TrendFollowing) :
                   /\ IsNum(atr) =>
                         /\ s.stop_loss = PricePlus(price, -2, atr)
                         /\ s.take_profit_1 = PricePlus(price, 2, atr)
                         /\ s.take_profit_2 = PricePlus(price, 3, atr)
                   /\ FGt(atr, F(0)) =>
                         /\ FLt(s.stop_loss, F(price))
                         /\ FLt(F(price), s.take_profit_1)
                         /\ FLt(s.take_profit_1, s.take_profit_2)

\* a strong uptrend with a positive ATR and the trend-following suggestion
C13_Witness ==
    /\ Analyzed
    /\ analysis.trend = "Strong Uptrend"
    /\ FGt(Latest.ATR, F(0))
    /\ Suggested(TrendFollowing)

\* C14: the mean-reversion suggestion is returned iff RSI < 30 or the close
\* is strictly below the lower Bollinger band; either alone suffices and an
\* undefined RSI or band does not count; its stop is the rolling support and
\* its targets are the Bollinger middle and SMA-20.
C14_MeanReversion ==
    Analyzed =>
        LET rsiLow == IsNum(Latest.RSI) /\ Latest.RSI.n < 30 * Latest.RSI.d
            belowBand == IsNum(Latest.BB_Lower)
                            /\ Latest.Close * Latest.BB_Lower.d < Latest.BB_Lower.n
        IN  /\ Suggested(MeanReversion) <=> (rsiLow \/ belowBand)
            /\ Cardinality(SuggestionsOf(MeanReversion)) <= 1
            /\ \A s \in SuggestionsOf(MeanReversion) :
                   /\ s.stop_loss = Latest.Support
                   /\ s.take_profit_1 = Latest.BB_Middle
                   /\ s.take_profit_2 = Latest.SMA_20

\* the close is below the lower band while RSI is 30 or more: the band
\* disjunct alone brings the suggestion
C14_Witness ==
    /\ Analyzed
    /\ FGe(Latest.RSI, F(30))
    /\ FLt(F(Latest.Close), Latest.BB_Lower)
    /\ Suggested(MeanReversion)

\* C15: the breakout suggestion is returned iff |price - resistance| / price
\* < 0.02 and the volume ratio is above 1.2, and not when resistance or the
\* volume ratio is undefined; its stop is SMA-20 and its targets are
\* resistance + (resistance - support) and resistance + 2*(resistance -
\* support), so target 1 <= target 2.
C15_Breakout ==
    Analyzed =>
        LET price == Latest.Close
            res == Latest.Resistance
            sup == Latest.Support
            ratio == Latest.Volume_Ratio
            near == IsNum(res) /\ 100 * Abs(price * res.d - res.n) < 2 * price * res.d
            busy == IsNum(ratio) /\ 10 * ratio.n > 12 * ratio.d
        IN  /\ Suggested(Breakout) <=> (near /\ busy)
            /\ (IsNaN(res) \/ IsNaN(ratio)) => ~Suggested(Breakout)
            /\ Cardinality(SuggestionsOf(Breakout)) <= 1
            /\ \A s \in SuggestionsOf(Breakout) :
                   /\ s.stop_loss = Latest.SMA_20
                   /\ s.take_profit_1 = Num(2 * res.n - sup.n, 1)
                   /\ s.take_profit_2 = Num(3 * res.n - 2 * sup.n, 1)
                   /\ FGe(res, sup)
                   /\ FLe(s.take_profit_1, s.take_profit_2)

\* the close is within 2% of resistance on a day of 1.3 times the average
\* volume or more: the breakout suggestion is made
C15_Witness ==
    /\ Analyzed
    /\ FGt(Latest.Volume_Ratio, Num(12, 10))
    /\ FGt(Latest.Resistance, Latest.Support)
    /\ Suggested(Breakout)

\* C16: the pullback-buy suggestion is returned iff the trend label is
\* exactly strong uptrend and 40 <= RSI <= 50, bounds included, and not for
\* the plain uptrend; its stop is SMA-50 and its targets are resistance and
\* resistance * 1.05.
C16_PullbackBuy ==
    Analyzed =>
        LET rsi == Latest.RSI
            inZone == IsNum(rsi) /\ 40 * rsi.d <= rsi.n /\ rsi.n <= 50 * rsi.d
        IN  /\ Suggested(PullbackBuy) <=> (analysis.trend = "Strong Uptrend" /\ inZone)
            /\ analysis.trend = "Uptrend" => ~Suggested(PullbackBuy)
            /\ Cardinality(SuggestionsOf(PullbackBuy)) <= 1
            /\ \A s \in SuggestionsOf(PullbackBuy) :
                   /\ s.stop_loss = Latest.SMA_50
                   /\ s.take_profit_1 = Latest.Resistance
                   /\ s.take_profit_2 = Num(Latest.Resistance.n * 105, Latest.Resistance.d * 100)

\* a strong uptrend whose RSI is exactly 50, the upper bound of the zone,
\* with the pullback-buy suggestion
C16_Witness ==
    /\ Analyzed
    /\ analysis.trend = "Strong Uptrend"
    /\ Latest.RSI = F(50)
    /\ Suggested(PullbackBuy)

\* every close of the frame is the same
FlatCloses(frame) == \A i \in 1..Len(frame) : frame[i].Close = frame[1].Close

\* C17: the volatility-expansion suggestion is returned iff the Bollinger
\* width is below 0.1; its stop and its target are descriptions, not prices,
\* and it has no second take-profit; a series with a constant close and a
\* full Bollinger window (the 250-bar flat series in particular) has width 0
\* and gets the suggestion.
C17_VolatilityExpansion ==
    Analyzed =>
        LET width == Latest.BB_Width
            squeeze == IsNum(width) /\ 10 * width.n < width.d
        IN  /\ Suggested(VolatilityExpansion) <=> squeeze
            /\ Cardinality(SuggestionsOf(VolatilityExpansion)) <= 1
            /\ \A s \in SuggestionsOf(VolatilityExpansion) :
                   /\ s.stop_loss.k = "text"
                   /\ s.take_profit_1.k = "text"
                   /\ "take_profit_2" \notin DOMAIN s
            /\ (FlatCloses(df) /\ Len(df) >= BBWindow) =>
                   (width = F(0) /\ Suggested(VolatilityExpansion))

\* the analysis of the flat series of MaxLen = 250 bars: width 0 and the
\* volatility-expansion suggestion
C17_Witness ==
    /\ Analyzed
    /\ Len(df) = MaxLen
    /\ FlatCloses(df)
    /\ Latest.BB_Width = F(0)
    /\ Suggested(VolatilityExpansion)

\* the close rises by the same positive amount on every day of the frame
ConstantRise(frame) ==
    /\ Len(frame) >= 2
    /\ frame[2].Close > frame[1].Close
    /\ \A i \in 2..Len(frame) :
          frame[i].Close - frame[i - 1].Close = frame[2].Close - frame[1].Close

\* C18: for a series whose close rises by the same positive amount every
\* day and that is long enough for SMA-200 (the 250-bar series in
\* particular), the latest snapshot has price > SMA-20 > SMA-50 > SMA-200,
\* the trend is strong uptrend and the trend-following suggestion is made.
C18_SteadyRiseStrongUptrend ==
    (Analyzed /\ ConstantRise(df) /\ Len(df) >= SMA200Window) =>
        LET price == Latest.Close
            sma20 == Latest.SMA_20
            sma50 == Latest.SMA_50
            sma200 == Latest.SMA_200
        IN  /\ IsNum(sma20) /\ IsNum(sma50) /\ IsNum(sma200)
            /\ price * sma20.d > sma20.n
            /\ sma20.n * sma50.d > sma50.n * sma20.d
            /\ sma50.n * sma200.d > sma200.n * sma50.d
            /\ analysis.trend = "Strong Uptrend"
            /\ Suggested(TrendFollowing)

\* the analysis of the series of MaxLen = 250 bars that rises by 3 a day
C18_Witness ==
    /\ Analyzed
    /\ Len(df) = MaxLen
    /\ ConstantRise(df)
    /\ df[2].Close - df[1].Close = 3
    /\ analysis.trend = "Strong Uptrend"
    /\ Suggested(TrendFollowing)

\* the close falls by more than 10% into row j and does not move otherwise
DropsAt(frame, j) ==
    /\ 10 * frame[j].Close < 9 * frame[j - 1].Close
    /\ \A i \in 2..Len(frame) : i # j => frame[i].Close = frame[i - 1].Close

\* a single one-day drop of more than 10% among flat prices
DropThenFlat(frame) == \E j \in 2..Len(frame) : DropsAt(frame, j)

DropRow(frame) == CHOOSE j \in 2..Len(frame) : DropsAt(frame, j)

OversoldAndMeanReversion ==
    /\ FLt(Latest.RSI, F(30))
    /\ InSeq(RSIOversold, Buys)
    /\ Suggested(MeanReversion)

\* C19 as stated: a series of one drop of more than 10% and flat prices,
\* analysed at any row from the drop on, has RSI < 30, the oversold tag and
\* the mean-reversion suggestion; and whenever the oversold tag is in the
\* buy set the mean-reversion suggestion is in the strategy list.
C19_DropOversoldAtAnyRow ==
    /\ (Analyzed /\ DropThenFlat(df)) => OversoldAndMeanReversion
    /\ (Analyzed /\ InSeq(RSIOversold, Buys)) => Suggested(MeanReversion)

\* C19 amended: a series of one drop of more than 10% and flat prices,
\* analysed at a row with at least 15 rows of history and at most 13 rows
\* after the drop (the drop is one of the 14 changes of the RSI window),
\* has RSI < 30, the oversold tag and the mean-reversion suggestion; and
\* whenever the oversold tag is in the buy set the mean-reversion suggestion
\* is in the strategy list.
C19_DropOversoldInWindow ==
    /\ (Analyzed /\ DropThenFlat(df) /\ Len(df) >= RSIWindow + 1
            /\ Len(df) - DropRow(df) < RSIWindow) => OversoldAndMeanReversion
    /\ (Analyzed /\ InSeq(RSIOversold, Buys)) => Suggested(MeanReversion)

\* the drop lies two flat rows back, inside the RSI window: RSI is 0
C19_Witness ==
    /\ Analyzed
    /\ DropThenFlat(df)
    /\ Len(df) >= RSIWindow + 1
    /\ DropRow(df) = Len(df) - 2
    /\ Latest.RSI = F(0)
    /\ InSeq(RSIOversold, Buys)
    /\ Suggested(MeanReversion)

\* the price columns of a row
Prices(row) ==
    [Date |-> row.Date, Open |-> row.Open, High |-> row.High, Low |-> row.Low,
     Close |-> row.Close, Volume |-> row.Volume]

\* the frame has the rows of the input, in the input's order, with the
\* input's prices and volumes
SameRowsAsInput(frame) ==
    /\ Len(frame) = Len(df)
    /\ \A i \in 1..Len(df) : Prices(frame[i]) = Prices(df[i])

\* C20: a second calculate_indicators call on the same series returns what
\* the first returned, on every row and column; both results have the rows
\* of the input in the input's order, and the input's open, high, low,
\* close and volume are unchanged by either call.
C20_Idempotent ==
    /\ pc \in {"calculated", "recalculated"} => SameRowsAsInput(enriched)
    /\ pc = "recalculated" => (again = enriched /\ SameRowsAsInput(again))

\* a 20-row frame after the second call: the results agree and carry a
\* defined RSI, ATR and SMA-20 on the last row
C20_Witness ==
    /\ pc = "recalculated"
    /\ Len(df) = SMA20Window
    /\ again = enriched
    /\ IsNum(again[Len(again)].RSI)
    /\ IsNum(again[Len(again)].ATR)
    /\ IsNum(again[Len(again)].SMA_20)
    /\ again[Len(again)].Close = df[Len(df)].Close

\* the first position of a kind in the strategy list (0 when it is absent)
PositionOf(kind) ==
    IF Suggested(kind)
    THEN CHOOSE i \in 1..Len(analysis.strategies) :
            /\ analysis.strategies[i].strategy = kind
            /\ \A j \in 1..(i - 1) : analysis.strategies[j].strategy # kind
    ELSE 0

\* C28: whenever the strategy list holds the pullback-buy suggestion it
\* holds the trend-following suggestion at an earlier position, and the buy
\* set of the same analysis holds the RSI buy-zone tag.
C28_PullbackImpliesTrendAndBuyZone ==
    (Analyzed /\ Suggested(PullbackBuy)) =>
        /\ Suggested(TrendFollowing)
        /\ PositionOf(TrendFollowing) < PositionOf(PullbackBuy)
        /\ InSeq(RSIBuyZone, Buys)

\* an analysis whose strategy list starts with the trend-following
\* suggestion and holds the pullback-buy suggestion later
C28_Witness ==
    /\ Analyzed
    /\ Suggested(PullbackBuy)
    /\ PositionOf(TrendFollowing) = 1
    /\ PositionOf(PullbackBuy) > 1
    /\ InSeq(RSIBuyZone, Buys)

(***************************************************************************)
(* TechnicalAnalyzer.analyze_batch: analyze_stock for each ticker in the   *)
(* order of the list, the non-empty analyses collected and saved.          *)
(***************************************************************************)
\* what the provider does for a ticker: it returns a frame or raises
Fetched(frame) == [ok |-> TRUE, frame |-> frame]

FetchFailed == [ok |-> FALSE, frame |-> <<>>]

\* analyze_stock as one call: get_price_data (an empty frame when the
\* provider raises), {} for an empty frame, else the analysis
analyze_stock(ticker, fetched) ==
    LET frame == IF fetched.ok THEN fetched.frame ELSE <<>>
    IN  IF Len(frame) = 0 THEN NoAnalysis
        ELSE BuildAnalysis(ticker, calculate_indicators(frame))

\* the loop body with a failed ticker clearing the list
analyze_batch_step_reset(results, an) ==
    IF ~an.empty THEN Append(results, an) ELSE <<>>

\* lines 334-335: `if analysis: results.append(analysis)`
analyze_batch_step(results, an) ==
    IF ~an.empty THEN Append(results, an) ELSE results

BatchTickers == {"QLYS", "DLO", "DOCN"}

\* the histories a ticker of the batch may have: none, a short one, a
\* falling one of 15 bars, a rising one of 20 bars with a busy last day
BatchFrames ==
    {<<>>,
     MakeSeries(3, <<1>>, <<>>, BaseVolume, "increasing"),
     MakeSeries(15, <<-1>>, <<>>, BaseVolume, "increasing"),
     MakeSeries(20, <<1>>, <<>>, 2 * BaseVolume, "increasing")}

BatchOutcomes == {Fetched(f) : f \in BatchFrames} \cup {FetchFailed}

\* the ticker lists: one to three different tickers in any order
BatchOrders ==
    UNION {{s \in [1..n -> BatchTickers] : \A i, j \in 1..n : i # j => s[i] # s[j]} :
              n \in 1..Cardinality(BatchTickers)}

\* analyze_batch is called, line 330: results = []
StartBatch ==
    /\ batch_pc = "start"
    /\ \E market \in [BatchTickers -> BatchOutcomes], tickers \in BatchOrders :
          /\ batch_market' = market
          /\ batch_tickers' = tickers
    /\ batch_i' = 1
    /\ batch_results' = <<>>
    /\ batch_pc' = "loop"
    /\ UNCHANGED batch_saved
    /\ UNCHANGED otherThanBatch

\* lines 332-335: one turn of the loop
AnalyzeNextTicker ==
    /\ batch_pc = "loop"
    /\ batch_i <= Len(batch_tickers)
    /\ LET ticker == batch_tickers[batch_i]
           an == analyze_stock(ticker, batch_market[ticker])
       IN  batch_results' = analyze_batch_step(batch_results, an)
    /\ batch_i' = batch_i + 1
    /\ UNCHANGED <<batch_pc, batch_market, batch_tickers, batch_saved>>
    /\ UNCHANGED otherThanBatch

\* lines 337-344: the results are written and returned
SaveBatch ==
    /\ batch_pc = "loop"
    /\ batch_i > Len(batch_tickers)
    /\ batch_saved' = batch_results
    /\ batch_pc' = "done"
    /\ UNCHANGED <<batch_market, batch_tickers, batch_i, batch_results>>
    /\ UNCHANGED otherThanBatch

\* the caller is done with the list
ReturnBatch ==
    /\ batch_pc = "done"
    /\ batch_pc' = "start"
    /\ batch_market' = <<>>
    /\ batch_tickers' = <<>>
    /\ batch_i' = 0
    /\ batch_results' = <<>>
    /\ batch_saved' = <<>>
    /\ UNCHANGED otherThanBatch

NextBatch ==
    \/ StartBatch
    \/ AnalyzeNextTicker
    \/ SaveBatch
    \/ ReturnBatch

SpecBatch == Init /\ [][NextBatch]_vars

\* the analysis of a ticker of the batch taken alone
AloneAnalysis(ticker) == analyze_stock(ticker, batch_market[ticker])

HasAnalysis(ticker) == ~AloneAnalysis(ticker).empty

GetStockFundamentals ==
    /\ st_pc = "start"
    /\ \E quote \in Quotes :
          /\ st_quote' = quote
          /\ st_data' = get_stock_fundamentals(Ticker, quote)
    /\ st_pc' = "fundamentals"
    /\ UNCHANGED <<st_result, st_raised>>
    /\ UNCHANGED otherThanTicker

\* lines 263-266: no data
ScreenNoData ==
    /\ st_pc = "fundamentals"
    /\ st_data.none
    /\ st_result' = NoRecord
    /\ st_pc' = "returned"
    /\ UNCHANGED <<st_quote, st_data, st_raised>>
    /\ UNCHANGED otherThanTicker

\* lines 268-294: the filters
ScreenFilters ==
    /\ st_pc = "fundamentals"
    /\ ~st_data.none
    /\ LET out == screen_ticker(Ticker, st_quote)
       IN  st_result' = out.data /\ st_raised' = out.raised
    /\ st_pc' = "returned"
    /\ UNCHANGED <<st_quote, st_data>>
    /\ UNCHANGED otherThanTicker

ScreenTickerReturn ==
    /\ st_pc = "returned"
    /\ st_pc' = "start"
    /\ st_quote' = NoQuote
    /\ st_data' = NoRecord
    /\ st_result' = NoRecord
    /\ st_raised' = FALSE
    /\ UNCHANGED otherThanTicker

NextScreenTicker ==
    \/ GetStockFundamentals
    \/ ScreenNoData
    \/ ScreenFilters
    \/ ScreenTickerReturn

SpecScreenTicker == Init /\ [][NextScreenTicker]_vars

\* C23: a record that screen_ticker returns has a market cap in
\* [min_market_cap, max_market_cap] and is_profitable = True; a ticker whose
\* market cap is missing or zero or outside the range, whose profitability
\* is unknown, or whose net income is not positive is never returned.
C23_ReturnedRecordsPassFilters ==
    st_pc = "returned" =>
        LET q == st_quote
            capMissingOrZero == ~q.has_cap \/ q.cap = Some(0)
            capOutside == q.has_cap /\ ~q.cap.none
                             /\ (q.cap.v < min_market_cap \/ q.cap.v > max_market_cap)
            unknown == q.stmt \in {"none", "no_net_income"}
            notPositive == q.stmt \in {"net_income", "continuing"} /\ q.net_income <= 0
        IN  /\ ~st_result.none =>
                  /\ ~st_result.market_cap.none
                  /\ min_market_cap <= st_result.market_cap.v
                  /\ st_result.market_cap.v <= max_market_cap
                  /\ st_result.is_profitable = Some(TRUE)
                  /\ ~st_raised
            /\ (capMissingOrZero \/ capOutside \/ unknown \/ notPositive) => st_result.none

\* a profitable ticker whose market cap is exactly the upper bound is
\* returned
C23_Witness ==
    /\ st_pc = "returned"
    /\ ~st_result.none
    /\ st_result.market_cap = Some(max_market_cap)
    /\ st_result.is_profitable = Some(TRUE)
    /\ st_quote.net_income > 0

(***************************************************************************)
(* OptimizedAIScreener.screen_parallel: one task per ticker is submitted   *)
(* to a pool of max_workers threads in sorted order; the pool starts the   *)
(* tasks in that order as workers become free and the tasks finish in any  *)
(* order; the caller takes the finished futures as as_completed yields     *)
(* them, appends the records and finally sorts by market cap.              *)
(***************************************************************************)
\* the tickers, in sorted order
ScreenNames == <<"DLO", "DOCN", "QLYS">>

ScreenNameSet == {ScreenNames[i] : i \in 1..Len(ScreenNames)}

RankOf(ticker) == CHOOSE i \in 1..Len(ScreenNames) : ScreenNames[i] = ticker

\* the numbers of workers
WorkerCounts == {1, 2, 3}

\* the tickers of a parallel screening: profitable at two market caps, not
\* profitable, and one whose market cap is None (its task raises)
ParallelQuotes ==
    {Quote(FALSE, TRUE, Some(1000), "net_income", 7),
     Quote(FALSE, TRUE, Some(max_market_cap), "net_income", 7),
     Quote(FALSE, TRUE, Some(1000), "net_income", -5),
     Quote(FALSE, TRUE, NoneValue, "net_income", 7)}

\* the frame left in the order of the results list
sort_values_unsorted(results) == {results}

\* line 331: df.sort_values('market_cap', ascending=False); rows with the
\* same market cap may come out in either order
sort_values(results) ==
    LET n == Len(results)
        rows == {results[i] : i \in 1..n}
    IN  {frame \in [1..n -> rows] :
            /\ \A i, j \in 1..n : i # j => frame[i] # frame[j]
            /\ \A i \in 1..(n - 1) : frame[i].market_cap.v >= frame[i + 1].market_cap.v}

\* lines 310-315: the tasks are submitted
SubmitTasks ==
    /\ sp_pc = "start"
    /\ \E tickers \in SUBSET ScreenNameSet, workers \in WorkerCounts :
          /\ sp_tickers' = tickers
          /\ sp_workers' = workers
          /\ \E quotes \in [tickers -> ParallelQuotes] : sp_quotes' = quotes
          /\ sp_task' = [t \in tickers |-> "pending"]
          /\ sp_calls' = [t \in tickers |-> 0]
          /\ sp_outcome' = [t \in tickers |-> [raised |-> FALSE, data |-> NoRecord]]
    /\ sp_results' = <<>>
    /\ sp_pc' = "collecting"
    /\ UNCHANGED sp_frame
    /\ UNCHANGED otherThanParallel

\* a free worker takes the oldest pending task and calls screen_ticker
StartTask ==
    /\ sp_pc = "collecting"
    /\ Cardinality({t \in sp_tickers : sp_task[t] = "running"}) < sp_workers
    /\ \E t \in sp_tickers :
          /\ sp_task[t] = "pending"
          /\ \A u \in sp_tickers : sp_task[u] = "pending" => RankOf(t) <= RankOf(u)
          /\ sp_task' = [sp_task EXCEPT ![t] = "running"]
          /\ sp_calls' = [sp_calls EXCEPT ![t] = @ + 1]
    /\ UNCHANGED <<sp_pc, sp_tickers, sp_quotes, sp_workers, sp_outcome, sp_results, sp_frame>>
    /\ UNCHANGED otherThanParallel

\* a running task ends: its future holds the record, None or the exception
FinishTask ==
    /\ sp_pc = "collecting"
    /\ \E t \in sp_tickers :
          /\ sp_task[t] = "running"
          /\ sp_task' = [sp_task EXCEPT ![t] = "finished"]
          /\ sp_outcome' = [sp_outcome EXCEPT ![t] = screen_ticker(t, sp_quotes[t])]
    /\ UNCHANGED <<sp_pc, sp_tickers, sp_quotes, sp_workers, sp_calls, sp_results, sp_frame>>
    /\ UNCHANGED otherThanParallel

\* lines 318-326: as_completed yields a finished future; its record is
\* appended, None and an exception are passed over
CollectResult ==
    /\ sp_pc = "collecting"
    /\ \E t \in sp_tickers :
          /\ sp_task[t] = "finished"
          /\ sp_task' = [sp_task EXCEPT ![t] = "collected"]
          /\ sp_results' =
                IF ~sp_outcome[t].raised /\ ~sp_outcome[t].data.none
                THEN Append(sp_results, sp_outcome[t].data)
                ELSE sp_results
    /\ UNCHANGED <<sp_pc, sp_tickers, sp_quotes, sp_workers, sp_calls, sp_outcome, sp_frame>>
    /\ UNCHANGED otherThanParallel

\* lines 328-340: every future was yielded; the frame is sorted and returned
SortAndReturn ==
    /\ sp_pc = "collecting"
    /\ \A t \in sp_tickers : sp_task[t] = "collected"
    /\ \E frame \in sort_values(sp_results) : sp_frame' = frame
    /\ sp_pc' = "done"
    /\ UNCHANGED <<sp_tickers, sp_quotes, sp_workers, sp_task, sp_calls, sp_outcome, sp_results>>
    /\ UNCHANGED otherThanParallel

\* the caller is done with the frame
ParallelReturn ==
    /\ sp_pc = "done"
    /\ sp_pc' = "start"
    /\ sp_tickers' = {}
    /\ sp_quotes' = <<>>
    /\ sp_workers' = 0
    /\ sp_task' = <<>>
    /\ sp_calls' = <<>>
    /\ sp_outcome' = <<>>
    /\ sp_results' = <<>>
    /\ sp_frame' = <<>>
    /\ UNCHANGED otherThanParallel

NextParallel ==
    \/ SubmitTasks
    \/ StartTask
    \/ FinishTask
    \/ CollectResult
    \/ SortAndReturn
    \/ ParallelReturn

SpecParallel == Init /\ [][NextParallel]_vars

\* the tickers whose screen_ticker call returns a record
Passing == {t \in sp_tickers : ~screen_ticker(t, sp_quotes[t]).data.none}

\* C22: for every number of workers and every completion order,
\* screen_parallel calls screen_ticker once for every input ticker (never
\* more while it runs) and returns exactly the records of the tickers whose
\* call returned data, each once, ordered by market cap descending; a task
\* that raises leaves out its own ticker only.
C22_ParallelScreening ==
    /\ sp_pc \in {"collecting", "done"} => \A t \in sp_tickers : sp_calls[t] <= 1
    /\ sp_pc = "done" =>
          /\ \A t \in sp_tickers : sp_calls[t] = 1
          /\ Len(sp_frame) = Cardinality(Passing)
          /\ {sp_frame[i].ticker : i \in 1..Len(sp_frame)} = Passing
          /\ \A i \in 1..Len(sp_frame) :
                sp_frame[i] = screen_ticker(sp_frame[i].ticker, sp_quotes[sp_frame[i].ticker]).data
          /\ \A i \in 1..(Len(sp_frame) - 1) :
                sp_frame[i].market_cap.v >= sp_frame[i + 1].market_cap.v

\* three tickers on two workers: one task raised, the other two records
\* were collected smaller cap first and are returned larger cap first
C22_Witness ==
    /\ sp_pc = "done"
    /\ sp_workers = 2
    /\ Cardinality(sp_tickers) = 3
    /\ \E t \in sp_tickers : sp_outcome[t].raised
    /\ Len(sp_frame) = 2
    /\ sp_results[1].market_cap.v < sp_results[2].market_cap.v
    /\ sp_frame[1] = sp_results[2]
    /\ sp_frame[2] = sp_results[1]

(***************************************************************************)
(* OptimizedAIScreener._get_tickers_by_sic_optimized: the first request,   *)
(* then one request per next_url while the loop condition of line 157      *)
(* holds.  The server is free in what it answers: any number of tickers    *)
(* on a page, any next_url or none, or a failing request.                  *)
(***************************************************************************)
\* line 157: len(tickers) < 1000
PaginationLimit == 1000

\* the number of results with a ticker on one page
PageSizes == {0, 1, 250, 1000}

\* what next_url of a response can be
NextUrls == {"None", "cursor_a", "cursor_b"}

\* line 157: next_url and len(tickers) < 1000
PaginationContinues == pg_next_url # "None" /\ pg_tickers < PaginationLimit

\* lines 148-156: the first request; an exception goes to line 167
FirstRequest ==
    /\ pg_pc = "start"
    /\ \/ \E size \in PageSizes, url \in NextUrls :
             /\ pg_tickers' = size
             /\ pg_next_url' = url
             /\ pg_pc' = "paging"
             /\ UNCHANGED pg_error
       \/ /\ pg_error' = TRUE
          /\ pg_pc' = "returned"
          /\ UNCHANGED <<pg_tickers, pg_next_url>>
    /\ UNCHANGED otherThanPagination

\* lines 157-165: one more page; an exception goes to line 167
NextPageRequest ==
    /\ pg_pc = "paging"
    /\ PaginationContinues
    /\ \/ \E size \in PageSizes, url \in NextUrls :
             /\ pg_tickers' = pg_tickers + size
             /\ pg_next_url' = url
             /\ UNCHANGED <<pg_pc, pg_error>>
       \/ /\ pg_error' = TRUE
          /\ pg_pc' = "returned"
          /\ UNCHANGED <<pg_tickers, pg_next_url>>
    /\ UNCHANGED otherThanPagination

\* line 157 is false: line 170 returns tickers
PaginationEnds ==
    /\ pg_pc = "paging"
    /\ ~PaginationContinues
    /\ pg_pc' = "returned"
    /\ UNCHANGED <<pg_tickers, pg_next_url, pg_error>>
    /\ UNCHANGED otherThanPagination

\* the caller is done with the list
PaginationReturn ==
    /\ pg_pc = "returned"
    /\ pg_pc' = "start"
    /\ pg_tickers' = 0
    /\ pg_next_url' = "None"
    /\ pg_error' = FALSE
    /\ UNCHANGED otherThanPagination

NextPagination ==
    \/ FirstRequest
    \/ NextPageRequest
    \/ PaginationEnds
    \/ PaginationReturn

SpecPagination == Init /\ [][NextPagination]_vars

\* the function keeps running: a request that was sent is answered (or
\* fails) and the statement after it is executed
SpecPaginationFair == SpecPagination /\ WF_vars(NextPagination)

\* C24: for every sequence of server responses a call of
\* _get_tickers_by_sic_optimized that has begun paging returns.
C24_PaginationTerminates == (pg_pc = "paging") ~> (pg_pc = "returned")

(***************************************************************************)
(* AnalysisPipeline.run_complete_analysis (main.py).  Dictionaries and     *)
(* frames are modelled by their keys and columns, the screener by its      *)
(* methods: a subscript with a missing key raises KeyError, a call of a    *)
(* missing method raises AttributeError, and the exception leaves          *)
(* run_complete_analysis, which has no try statement.                      *)
(***************************************************************************)
\* screener.py: the methods of OptimizedAIScreener
ScreenerMethods ==
    {"__init__", "is_valid_ticker", "discover_ai_tickers_optimized",
     "_get_tickers_by_sic_optimized", "check_profitability_from_financials",
     "get_stock_fundamentals", "screen_ticker", "screen_parallel", "screen",
     "get_summary_stats"}

\* screener.py, lines 236-251: the keys of a record, the columns of the
\* screened frame
RecordFields ==
    {"ticker", "name", "market_cap", "sector", "industry", "is_profitable",
     "net_income", "net_margin", "profitability_reason", "current_price",
     "pe_ratio", "revenue", "revenue_growth", "timestamp"}

\* screener.py, lines 370-383: the keys of the dictionary get_summary_stats
\* returns
get_summary_stats(frame) ==
    IF frame = <<>>
    THEN {}
    ELSE {"total_stocks", "avg_market_cap", "median_market_cap",
          "avg_net_margin", "avg_pe_ratio", "sectors", "industries"}

\* the four stages, in the order of the module docstring
PipelineStages == <<"screening", "sentiment", "technical", "report">>

Statement(line, kind, name) == [line |-> line, kind |-> kind, name |-> name]

\* main.py, lines 59-101 and 111-181: the statements after the check of
\* line 54, in execution order.  kind is what the statement does: "method"
\* calls a screener method, "stat" subscripts stats, "column" subscripts
\* the screened frame or one of its rows, "stage" starts a stage, "write"
\* writes the report file, "complete" prints the completion banner
PipelineStatements ==
    << Statement(59, "method", "get_summary_stats"),
       Statement(62, "stat", "total_stocks"),
       Statement(63, "stat", "avg_market_cap"),
       Statement(64, "stat", "avg_profit_margin"),
       Statement(67, "method", "export_for_analysis"),
       Statement(69, "column", "ticker"),
       Statement(77, "stage", "sentiment"),
       Statement(88, "stage", "technical"),
       Statement(98, "stage", "report"),
       Statement(118, "column", "ticker"),
       Statement(144, "column", "name"),
       Statement(145, "column", "market_cap"),
       Statement(146, "column", "current_price"),
       Statement(147, "column", "profit_margin"),
       Statement(148, "column", "pe_ratio"),
       Statement(149, "column", "revenue_growth"),
       Statement(150, "column", "industry"),
       Statement(174, "write", "comprehensive_report"),
       Statement(101, "complete", "ANALYSIS PIPELINE COMPLETE") >>

\* the exception a statement raises, "None" when it raises none
ExceptionOf(stmt, stats) ==
    CASE stmt.kind = "method" /\ stmt.name \notin ScreenerMethods -> "AttributeError"
      [] stmt.kind = "stat" /\ stmt.name \notin stats -> "KeyError"
      [] stmt.kind = "column" /\ stmt.name \notin RecordFields -> "KeyError"
      [] OTHER -> "None"

\* the frames screening can return: rows of distinct tickers, ordered by
\* market cap descending (screen_parallel, line 331)
ScreenedCaps == {1000, max_market_cap}

ScreenedRows == [ticker : ScreenNameSet, market_cap : ScreenedCaps]

ScreenedFrames ==
    {<<>>} \cup
    UNION {{frame \in [1..n -> ScreenedRows] :
               /\ \A i, j \in 1..n : i # j => frame[i].ticker # frame[j].ticker
               /\ \A i \in 1..(n - 1) : frame[i].market_cap >= frame[i + 1].market_cap}
           : n \in 1..Len(ScreenNames)}

\* lines 43-52: stage 1, screener.screen
RunScreening ==
    /\ pl_pc = "start"
    /\ \E frame \in ScreenedFrames : pl_df' = frame
    /\ pl_stages' = <<"screening">>
    /\ pl_pc' = "screened"
    /\ UNCHANGED <<pl_i, pl_stats, pl_report, pl_complete, pl_error>>
    /\ UNCHANGED otherThanPipeline

\* lines 54-56: an empty screening result returns at once
CheckEmpty ==
    /\ pl_pc = "screened"
    /\ IF pl_df = <<>>
       THEN pl_pc' = "returned" /\ UNCHANGED pl_i
       ELSE pl_pc' = "running" /\ pl_i' = 1
    /\ UNCHANGED <<pl_df, pl_stats, pl_stages, pl_report, pl_complete, pl_error>>
    /\ UNCHANGED otherThanPipeline

\* lines 59-101: the next statement runs, or raises
ExecuteStatement ==
    /\ pl_pc = "running"
    /\ LET stmt == PipelineStatements[pl_i]
           exception == ExceptionOf(stmt, pl_stats)
       IN  IF exception # "None"
           THEN /\ pl_error' = exception
                /\ pl_pc' = "raised"
                /\ UNCHANGED <<pl_i, pl_stats, pl_stages, pl_report, pl_complete>>
           ELSE /\ pl_stats' = IF stmt.name = "get_summary_stats"
                               THEN get_summary_stats(pl_df) ELSE pl_stats
                /\ pl_stages' = IF stmt.kind = "stage"
                                THEN Append(pl_stages, stmt.name) ELSE pl_stages
                /\ pl_report' = (pl_report \/ stmt.kind = "write")
                /\ pl_complete' = (pl_complete \/ stmt.kind = "complete")
                /\ IF pl_i = Len(PipelineStatements)
                   THEN pl_pc' = "returned" /\ UNCHANGED pl_i
                   ELSE pl_i' = pl_i + 1 /\ UNCHANGED pl_pc
                /\ UNCHANGED pl_error
    /\ UNCHANGED pl_df
    /\ UNCHANGED otherThanPipeline

\* run_complete_analysis is over: it returned or an exception left it
PipelineOver ==
    /\ pl_pc \in {"returned", "raised"}
    /\ pl_pc' = "start"
    /\ pl_df' = <<>>
    /\ pl_i' = 0
    /\ pl_stats' = {}
    /\ pl_stages' = <<>>
    /\ pl_report' = FALSE
    /\ pl_complete' = FALSE
    /\ pl_error' = "None"
    /\ UNCHANGED otherThanPipeline

NextPipeline ==
    \/ RunScreening
    \/ CheckEmpty
    \/ ExecuteStatement
    \/ PipelineOver

SpecPipeline == Init /\ [][NextPipeline]_vars

C26_PipelineCompletes ==
    pl_df # <<>> =>
        /\ pl_error = "None"
        /\ pl_pc = "returned" => pl_report /\ pl_complete

(***************************************************************************)
(* AnalysisPipeline._print_top_opportunities (main.py, lines 183-255).     *)
(* Ratios are in hundredths (0.1 is 10, 0.15 is 15); a missing key, None   *)
(* and NaN are NoneValue: none of them adds to the score.                  *)
(***************************************************************************)
\* Python truthiness of an optional number: not None and not zero
TruthyNumber(x) == ~x.none /\ x.v # 0

\* lines 190-222: the score of one stock
opportunity_score(stock) ==
    (IF TruthyNumber(stock.profit_margin) /\ stock.profit_margin.v > 10 THEN 2 ELSE 0)
  + (IF TruthyNumber(stock.revenue_growth) /\ stock.revenue_growth.v > 15 THEN 2 ELSE 0)
  + (IF TruthyNumber(stock.pe_ratio) /\ stock.pe_ratio.v < 30 THEN 1 ELSE 0)
  + (IF stock.sentiment = "Bullish" THEN 3
     ELSE IF stock.sentiment = "Bearish" THEN -2 ELSE 0)
  + (IF stock.trend \in {"Strong Uptrend", "Uptrend"} THEN 2
     ELSE IF stock.trend \in {"Strong Downtrend", "Downtrend"} THEN -1 ELSE 0)
  + (IF TruthyNumber(stock.rsi)
     THEN IF 30 <= stock.rsi.v /\ stock.rsi.v <= 50 THEN 2
          ELSE IF stock.rsi.v < 30 THEN 1 ELSE 0
     ELSE 0)

\* line 222: stock['opportunity_score'] = score
WithScore(stock) ==
    [ticker |-> stock.ticker, opportunity_score |-> opportunity_score(stock)]

\* line 225: list.sort(key=score, reverse=True) is stable: x goes behind
\* every stock whose score is not smaller
InsertByScore(x, sorted) ==
    LET ahead == Cardinality({i \in 1..Len(sorted) :
                                 sorted[i].opportunity_score >= x.opportunity_score})
    IN  SubSeq(sorted, 1, ahead) \o <<x>> \o SubSeq(sorted, ahead + 1, Len(sorted))

RECURSIVE SortByScore(_)
SortByScore(list) ==
    IF list = <<>>
    THEN <<>>
    ELSE InsertByScore(list[Len(list)], SortByScore(SubSeq(list, 1, Len(list) - 1)))

\* line 230: final_data[:5]
TopCount == 5

TopOpportunities(list) == SubSeq(list, 1, IF Len(list) < TopCount THEN Len(list) ELSE TopCount)

\* the scale the score is printed on, line 234: 'Score: {score}/10'
PrintedScale == 10

StockOf(ticker, margin, growth, pe, sentiment, trend, rsi) ==
    [ticker |-> ticker, profit_margin |-> margin, revenue_growth |-> growth,
     pe_ratio |-> pe, sentiment |-> sentiment, trend |-> trend, rsi |-> rsi]

\* every combination of the inputs of the score, around its thresholds
AllStocks ==
    {StockOf("QLYS", margin, growth, pe, sentiment, trend, rsi) :
        margin \in {NoneValue, Some(0), Some(10), Some(11)},
        growth \in {NoneValue, Some(15), Some(16)},
        pe \in {NoneValue, Some(0), Some(29), Some(30)},
        sentiment \in {"Neutral", "Bullish", "Bearish"},
        trend \in {""} \cup TrendLabels,
        rsi \in {NoneValue, Some(0), Some(29), Some(30), Some(50), Some(51)}}

\* three stocks for the longer lists: every factor at its best, every
\* factor at its worst, and nothing known
ListStocks ==
    {StockOf("QLYS", Some(11), Some(16), Some(29), "Bullish", "Strong Uptrend", Some(30)),
     StockOf("DLO", Some(10), Some(15), Some(30), "Bearish", "Downtrend", Some(51)),
     StockOf("DOCN", NoneValue, NoneValue, NoneValue, "Neutral", "", NoneValue)}

\* the lengths of the longer lists: two stocks, and one more than is printed
ListLens == {2, TopCount + 1}

FinalDataLists ==
    {<<>>} \cup {<<s>> : s \in AllStocks}
           \cup UNION {[1..n -> ListStocks] : n \in ListLens}

\* _generate_final_report, line 180: the call
CallPrintTopOpportunities ==
    /\ op_pc = "start"
    /\ \E list \in FinalDataLists : op_data' = list
    /\ op_pc' = "scoring"
    /\ UNCHANGED op_printed
    /\ UNCHANGED otherThanOpportunity

\* lines 189-225: every stock gets its score and the list is sorted
ScoreAndSort ==
    /\ op_pc = "scoring"
    /\ op_data' = SortByScore([i \in 1..Len(op_data) |-> WithScore(op_data[i])])
    /\ op_pc' = "printing"
    /\ UNCHANGED op_printed
    /\ UNCHANGED otherThanOpportunity

\* lines 230-253: the first five are printed
PrintTopFive ==
    /\ op_pc = "printing"
    /\ op_printed' = TopOpportunities(op_data)
    /\ op_pc' = "printed"
    /\ UNCHANGED op_data
    /\ UNCHANGED otherThanOpportunity

\* line 255: the function returns
OpportunitiesReturn ==
    /\ op_pc = "printed"
    /\ op_pc' = "start"
    /\ op_data' = <<>>
    /\ op_printed' = <<>>
    /\ UNCHANGED otherThanOpportunity

NextOpportunity ==
    \/ CallPrintTopOpportunities
    \/ ScoreAndSort
    \/ PrintTopFive
    \/ OpportunitiesReturn

SpecOpportunity == Init /\ [][NextOpportunity]_vars

\* C27: every printed score lies on the printed scale 0..10, the stocks are
\* printed in non-increasing score order, and at most five are printed.
C27_ScoreWithinScale ==
    op_pc = "printed" =>
        /\ \A i \in 1..Len(op_printed) :
              /\ 0 <= op_printed[i].opportunity_score
              /\ op_printed[i].opportunity_score <= PrintedScale
        /\ \A i \in 1..(Len(op_printed) - 1) :
              op_printed[i].opportunity_score >= op_printed[i + 1].opportunity_score
        /\ Len(op_printed) <= TopCount

(***************************************************************************)
(* SentimentAnalyzer._analyze_news_articles (sentiment_analysis.py, lines  *)
(* 88-160).  A title or description is the set of its words; `word in      *)
(* text` is a substring test, so a word of the text counts every keyword   *)
(* that occurs inside it ('beats' counts 'beat' and 'beats').              *)
(***************************************************************************)
\* lines 96-102
positive_keywords ==
    {"beat", "beats", "growth", "surge", "rally", "gain", "gains", "up",
     "profit", "bullish", "upgrade", "outperform", "buy", "strong",
     "positive", "innovation", "breakthrough", "success", "partnership",
     "acquisition", "revenue", "earnings", "exceed", "milestone",
     "leadership", "expansion", "launch", "award"}

\* lines 104-109
negative_keywords ==
    {"loss", "losses", "decline", "fall", "drop", "down", "miss", "misses",
     "bearish", "downgrade", "sell", "weak", "negative", "concern",
     "risk", "threat", "investigation", "lawsuit", "layoff", "cut",
     "warning", "disappointing", "struggle", "challenge", "crisis"}

\* the words of the titles and of the descriptions
TitleWords == {"Beats", "LOSSES", "against"}

DescriptionWords == {"growth", "lawsuit", "results"}

\* lines 115-116: str.lower()
Lower(word) ==
    CASE word = "Beats" -> "beats"
      [] word = "LOSSES" -> "losses"
      [] OTHER -> word

\* the keywords that are substrings of a lower-case word
KeywordsWithin(word) ==
    CASE word = "beats" -> {"beat", "beats"}
      [] word = "losses" -> {"loss", "losses"}
      [] word = "against" -> {"gain", "gains"}
      [] word = "growth" -> {"growth"}
      [] word = "lawsuit" -> {"lawsuit"}
      [] OTHER -> {}

\* lines 115-117: the words of text = f"{title} {description}"
TextOf(article) == {Lower(w) : w \in article.title \cup article.description}

\* lines 120-121: the keywords of a list that occur in the text
KeywordCount(keywords, text) ==
    Cardinality(keywords \cap UNION {KeywordsWithin(w) : w \in text})

\* lines 120-127: the score of one article
article_score(article) ==
    LET pos_count == KeywordCount(positive_keywords, TextOf(article))
        neg_count == KeywordCount(negative_keywords, TextOf(article))
    IN  IF pos_count + neg_count > 0
        THEN Num(pos_count - neg_count, pos_count + neg_count)
        ELSE F(0)

\* the literal 0.2 of lines 137, 144, 146 and 155-157
SentimentThreshold == Num(1, 5)

\* -0.2 < s < 0.2
NeutralScoreStrict(s) == FLt(FNeg(SentimentThreshold), s) /\ FLt(s, SentimentThreshold)

\* line 155: s > 0.2
PositiveScore(s) == FGt(s, SentimentThreshold)

\* line 156: s < -0.2
NegativeScore(s) == FLt(s, FNeg(SentimentThreshold))

\* line 157: -0.2 <= s <= 0.2
NeutralScore(s) == FLe(FNeg(SentimentThreshold), s) /\ FLe(s, SentimentThreshold)

RECURSIVE SumScores(_)
SumScores(scores) ==
    IF scores = <<>> THEN F(0)
    ELSE FAdd(SumScores(SubSeq(scores, 1, Len(scores) - 1)), scores[Len(scores)])

\* a float mean: the exact mean and the sign of its rounding error
FloatMean(exact, rounding) == [exact |-> exact, rounding |-> rounding]

\* line 144: avg_sentiment > 0.2
MeanAbove(mean) ==
    \/ FGt(mean.exact, SentimentThreshold)
    \/ mean.exact = SentimentThreshold /\ mean.rounding > 0

\* line 146: avg_sentiment < -0.2
MeanBelow(mean) ==
    \/ FLt(mean.exact, FNeg(SentimentThreshold))
    \/ mean.exact = FNeg(SentimentThreshold) /\ mean.rounding < 0

\* the rounding errors sum(sentiment_scores) / len(sentiment_scores) can
\* have: a sum of two or more scores that are not whole numbers is rounded
\* (0.2 + 0.2 + 0.2 is 0.6000000000000001), every other mean compares with
\* 0.2 as the exact one does
RoundingErrors(scores) ==
    IF Len(scores) >= 2 /\ \E i \in 1..Len(scores) : scores[i].d # 1
    THEN {-1, 0, 1}
    ELSE {0}

\* lines 111-160
_analyze_news_articles(articles, rounding) ==
    LET sentiment_scores == [i \in 1..Len(articles) |-> article_score(articles[i])]
        n == Len(sentiment_scores)
        avg_sentiment ==
            IF n > 0
            THEN FloatMean(FDiv(SumScores(sentiment_scores), F(n)), rounding)
            ELSE FloatMean(F(0), 0)
        count(bucket(_)) == Cardinality({i \in 1..n : bucket(sentiment_scores[i])})
    IN  [news_count |-> Len(articles),
         sentiment_score |-> avg_sentiment,
         sentiment |-> IF MeanAbove(avg_sentiment) THEN "Bullish"
                       ELSE IF MeanBelow(avg_sentiment) THEN "Bearish"
                       ELSE "Neutral",
         positive_articles |-> count(PositiveScore),
         negative_articles |-> count(NegativeScore),
         neutral_articles |-> count(NeutralScore),
         scores |-> sentiment_scores]

Articles == [title : SUBSET TitleWords, description : SUBSET DescriptionWords]

\* three articles for the longer lists, with scores 1/5, 1 and -1
ListArticles ==
    {[title |-> {"Beats", "LOSSES"}, description |-> {"growth"}],
     [title |-> {"Beats"}, description |-> {"results"}],
     [title |-> {"LOSSES"}, description |-> {"lawsuit"}]}

\* the length of the longer lists
MaxArticles == 3

\* every list of up to two articles, and the longer lists
ArticleLists ==
    UNION {[1..n -> Articles] : n \in 0..2}
        \cup [1..MaxArticles -> ListArticles]

\* get_news_sentiment calls _analyze_news_articles with the articles found
CallAnalyzeNews ==
    /\ sa_pc = "start"
    /\ \E articles \in ArticleLists : sa_articles' = articles
    /\ sa_pc' = "analyzing"
    /\ UNCHANGED <<sa_rounding, sa_result>>
    /\ UNCHANGED otherThanSentiment

\* lines 111-160: the result is built
AnalyzeNewsArticles ==
    /\ sa_pc = "analyzing"
    /\ \E rounding \in
          RoundingErrors([i \in 1..Len(sa_articles) |-> article_score(sa_articles[i])]) :
          /\ sa_rounding' = rounding
          /\ sa_result' = _analyze_news_articles(sa_articles, rounding)
    /\ sa_pc' = "returned"
    /\ UNCHANGED sa_articles
    /\ UNCHANGED otherThanSentiment

\* the caller is done with the dictionary
SentimentReturn ==
    /\ sa_pc = "returned"
    /\ sa_pc' = "start"
    /\ sa_articles' = <<>>
    /\ sa_rounding' = 0
    /\ sa_result' = <<>>
    /\ UNCHANGED otherThanSentiment

NextSentiment ==
    \/ CallAnalyzeNews
    \/ AnalyzeNewsArticles
    \/ SentimentReturn

SpecSentiment == Init /\ [][NextSentiment]_vars

\* C29: in the result of _analyze_news_articles the three buckets add up to
\* news_count and every article's score is in exactly one of them, every
\* score lies in [-1, 1], and the label is Bullish iff the mean score is
\* above 0.2, Bearish iff it is below -0.2 and Neutral otherwise.
C29_SentimentBuckets ==
    sa_pc = "returned" =>
        /\ sa_result.news_count = Len(sa_articles)
        /\ sa_result.positive_articles + sa_result.negative_articles
              + sa_result.neutral_articles = sa_result.news_count
        /\ \A i \in 1..Len(sa_articles) :
              LET s == article_score(sa_articles[i])
                  inBucket == {b \in {"positive", "negative", "neutral"} :
                                 \/ b = "positive" /\ FLt(Num(1, 5), s)
                                 \/ b = "negative" /\ FLt(s, Num(-1, 5))
                                 \/ b = "neutral" /\ ~FLt(Num(1, 5), s) /\ ~FLt(s, Num(-1, 5))}
              IN  /\ Cardinality(inBucket) = 1
                  /\ FLe(F(-1), s) /\ FLe(s, F(1))
        /\ sa_result.positive_articles =
              Cardinality({i \in 1..Len(sa_articles) : FLt(Num(1, 5), article_score(sa_articles[i]))})
        /\ sa_result.negative_articles =
              Cardinality({i \in 1..Len(sa_articles) : FLt(article_score(sa_articles[i]), Num(-1, 5))})
        /\ sa_result.sentiment = "Bullish" <=> MeanAbove(sa_result.sentiment_score)
        /\ sa_result.sentiment = "Bearish" <=> MeanBelow(sa_result.sentiment_score)
        /\ sa_result.sentiment = "Neutral" <=>
              ~MeanAbove(sa_result.sentiment_score) /\ ~MeanBelow(sa_result.sentiment_score)
        /\ sa_result.sentiment \in {"Bullish", "Bearish", "Neutral"}

\* three articles, each with three positive and two negative keywords and a
\* score of exactly 0.2: all three are neutral, and so is the label when
\* the mean is not rounded up
C29_Witness ==
    /\ sa_pc = "returned"
    /\ sa_result.news_count = 3
    /\ \A i \in 1..3 : sa_result.scores[i] = Num(1, 5)
    /\ sa_result.neutral_articles = 3
    /\ sa_rounding = 0
    /\ sa_result.sentiment = "Neutral"

(***************************************************************************)
(* ParquetReader.get_stock_daily and get_options_daily (parquet_reader.py) *)
(* as the CLI command 'query' calls them (cli/data.py, lines 71-107).  The *)
(* two functions build the LIMIT clause with the same statement.           *)
(***************************************************************************)
QueryFunctions == {"get_stock_daily", "get_options_daily"}

\* cli/data.py, line 75: --limit, default 10
DefaultLimit == 10

\* the limit arguments: absent, and integers from 0 on
QueryLimits == {NoneValue} \cup {Some(l) : l \in {0, 1, 2, DefaultLimit}}

\* the largest number of matching rows
MaxRows == 12

\* lines 73-102 (stocks) and 143-176 (options): the clauses of the query;
\* LIMIT is appended under `if limit:`
BuildQuery(function, limit) ==
    [select |-> IF function = "get_stock_daily" THEN "stocks_daily" ELSE "options_daily",
     order_by |-> "date DESC",
     has_limit |-> TruthyNumber(limit),
     limit |-> IF TruthyNumber(limit) THEN limit.v ELSE 0]

\* duckdb.sql(query).df(): LIMIT n keeps the first n rows
RowsReturned(query, matching) ==
    IF query.has_limit /\ query.limit < matching THEN query.limit ELSE matching

\* cli/data.py, lines 85-98: query_data calls the function of --type
CallQuery ==
    /\ pq_pc = "start"
    /\ \E function \in QueryFunctions, limit \in QueryLimits,
          matching \in 0..MaxRows, exists \in BOOLEAN :
          /\ pq_function' = function
          /\ pq_limit' = limit
          /\ pq_matching' = matching
          /\ pq_path_exists' = exists
    /\ pq_pc' = "called"
    /\ UNCHANGED <<pq_query, pq_result>>
    /\ UNCHANGED otherThanQuery

\* lines 66-68: the directory is missing, None is returned
ReturnNoPath ==
    /\ pq_pc = "called"
    /\ ~pq_path_exists
    /\ pq_result' = NoneValue
    /\ pq_pc' = "returned"
    /\ UNCHANGED <<pq_function, pq_path_exists, pq_limit, pq_matching, pq_query>>
    /\ UNCHANGED otherThanQuery

\* lines 70-102: the query is built
BuildTheQuery ==
    /\ pq_pc = "called"
    /\ pq_path_exists
    /\ pq_query' = BuildQuery(pq_function, pq_limit)
    /\ pq_pc' = "built"
    /\ UNCHANGED <<pq_function, pq_path_exists, pq_limit, pq_matching, pq_result>>
    /\ UNCHANGED otherThanQuery

\* lines 107-111: the query is executed and the frame returned
ExecuteQuery ==
    /\ pq_pc = "built"
    /\ pq_result' = Some(RowsReturned(pq_query, pq_matching))
    /\ pq_pc' = "returned"
    /\ UNCHANGED <<pq_function, pq_path_exists, pq_limit, pq_matching, pq_query>>
    /\ UNCHANGED otherThanQuery

\* query_data prints the frame
QueryReturn ==
    /\ pq_pc = "returned"
    /\ pq_pc' = "start"
    /\ pq_function' = ""
    /\ pq_path_exists' = TRUE
    /\ pq_limit' = NoneValue
    /\ pq_matching' = 0
    /\ pq_query' = <<>>
    /\ pq_result' = NoneValue
    /\ UNCHANGED otherThanQuery

NextQuery ==
    \/ CallQuery
    \/ ReturnNoPath
    \/ BuildTheQuery
    \/ ExecuteQuery
    \/ QueryReturn

SpecQuery == Init /\ [][NextQuery]_vars

\* C30: a query that was executed with an integer limit L >= 0 carries the
\* clause LIMIT L and returns at most L rows; only a query without a limit
\* argument has no LIMIT clause.
C30_LimitHonoured ==
    pq_pc = "returned" /\ pq_path_exists =>
        IF pq_limit.none
        THEN ~pq_query.has_limit
        ELSE /\ pq_query.has_limit
             /\ pq_query.limit = pq_limit.v
             /\ pq_result.v <= pq_limit.v

====
